---- MODULE Spec2Model ----
(***************************************************************************)
(* A model of qubovert's Metropolis simulation engine                      *)
(* (src/qubovert/sim/_simulations.py, class SpinSimulation).               *)
(*                                                                         *)
(* A model (Hamiltonian) is a function from terms to integer coefficients, *)
(* a term being a tuple of variable labels, as in the plain dict the       *)
(* constructor accepts.  A state is a function from the engine's variables *)
(* to spin values.  update and schedule_update are followed step by step:  *)
(* a call, the start of each phase, the start of each sweep (snapshot and  *)
(* the labels random.choices draws) and one step per candidate flip.       *)
(***************************************************************************)
EXTENDS Integers, Sequences, FiniteSets, TLC

\* ----------------------------------------------------------------- bounds
\* largest memory a simulation is constructed with
MaxMemory == 2
\* largest num_updates handed to update or to a schedule phase
MaxSweeps == 2
\* sweeps recorded per epoch when the sweep log is switched on
MaxLog == MaxMemory + 1
\* draws of the random source followed after a seed
TapeLen == 12
\* a draw in [0, 1) is kept in millionths, rounded down
Million == 1000000

\* ----------------------------------------------------------------- inputs
Labels == {1, 2}
Spins == {-1, 1}
\* temperatures handed to update
Temps == {0, 1}
\* sweep counts handed to update
Counts == -1 .. MaxSweeps

ModelPair == (<<1, 2>> :> -1)
ModelMixed == (<<>> :> 3) @@ (<<1>> :> 1) @@ (<<1, 2>> :> 2)
ModelBoth == (<<1, 2>> :> 1) @@ (<<2, 1>> :> -2) @@ (<<2>> :> -1)
ModelSingle == (<<1>> :> 1)
Models == {ModelPair, ModelMixed, ModelBoth, ModelSingle}

\* initial_state arguments: given = FALSE is initial_state=None; a dict is
\* its values and, in keys, the order in which it lists its keys
NoInitial == [given |-> FALSE, dict |-> <<>>, keys |-> <<>>]
Initial(d, ks) == [given |-> TRUE, dict |-> d, keys |-> ks]
\* {1: -1, 2: -1}, {1: 1, 2: -1}, {2: -1, 1: 1}, {1: -1}, {1: 0, 2: 1}
InitialArgs == {NoInitial,
                Initial((1 :> -1) @@ (2 :> -1), <<1, 2>>),
                Initial((1 :> 1) @@ (2 :> -1), <<1, 2>>),
                Initial((1 :> 1) @@ (2 :> -1), <<2, 1>>),
                Initial((1 :> -1), <<1>>),
                Initial((1 :> 0) @@ (2 :> 1), <<1, 2>>)}

\* set_state arguments: every bipolar assignment of the labels, one with a
\* value outside {1, -1}, and one that lacks label 2
StateArgs == [Labels -> Spins] \cup {[l \in Labels |-> 0], (1 :> -1)}

\* schedules handed to schedule_update
Phase(T, n) == [T |-> T, n |-> n]
Schedules == {<<>>, <<Phase(1, 2), Phase(0, 1)>>, <<Phase(0, 1), Phase(1, -1)>>,
              <<Phase(0, 0), Phase(1, 1)>>, <<Phase(0, -1)>>}

\* seed arguments: NoSeed is seed=None
NoSeed == -1
Seeds == {0, 3}
SeedArgs == {NoSeed} \cup Seeds

\* --------------------------------------------------------------- helpers
Range(s) == {s[j] : j \in DOMAIN s}
Min(a, b) == IF a <= b THEN a ELSE b

RECURSIVE SortedSeq(_)
\* the elements of a set of integers in ascending order
SortedSeq(S) ==
    IF S = {} THEN <<>>
    ELSE LET m == CHOOSE x \in S : \A y \in S : x <= y
         IN  <<m>> \o SortedSeq(S \ {m})

RECURSIVE Prod(_, _)
\* the product of the values a state gives to the labels of a term
Prod(z, k) == IF k = <<>> THEN 1 ELSE z[Head(k)] * Prod(z, Tail(k))

RECURSIVE SumTerms(_, _, _)
SumTerms(z, H, S) ==
    IF S = {} THEN 0
    ELSE LET k == CHOOSE x \in S : TRUE
         IN  H[k] * Prod(z, k) + SumTerms(z, H, S \ {k})

\* qubovert.utils.puso_value: the value of the Hamiltonian H in state z
puso_value(z, H) == SumTerms(z, H, DOMAIN H)

\* every label of every term of a model
ModelLabels(m) == UNION {Range(k) : k \in DOMAIN m}

\* the variable list the constructor derives: list(initial_state.keys()), or
\* list({v for k in model for v in k}), a set of small non-negative integers,
\* which CPython iterates in ascending order
CtorVariables(m, init) == IF init.given THEN init.keys ELSE SortedSeq(ModelLabels(m))

\* the initial state the constructor stores
CtorInitialState(m, init) ==
    IF init.given THEN init.dict ELSE [v \in Range(CtorVariables(m, init)) |-> 1]

\* the index filed under each term's first label only
BuildSubgraphsFirstLabel(m, vs) ==
    [v \in vs |-> [k \in {t \in DOMAIN m : t # <<>> /\ v = Head(t)} |-> m[k]]]

\* the index with the constant term filed under every variable
BuildSubgraphsWithConstant(m, vs) ==
    [v \in vs |-> [k \in {t \in DOMAIN m : t = <<>> \/ v \in Range(t)} |-> m[k]]]

\* the adjacency index: each variable's terms with their coefficients
BuildSubgraphs(m, vs) ==
    [v \in vs |-> [k \in {t \in DOMAIN m : v \in Range(t)} |-> m[k]]]

\* set_state's result: the state it leaves and the error it raises
SetStateResult(vs, cur, arg) ==
    IF ~(vs \subseteq DOMAIN arg)
    THEN [state |-> cur, raised |-> "KeyError"]
    ELSE LET new == [v \in vs |-> arg[v]]
         IN  [state |-> new,
              raised |-> IF \E v \in vs : new[v] \notin {1, -1}
                         THEN "ValueError" ELSE "none"]

\* the constructor returns an object: set_state and the index raise nothing
ConstructOK(m, init) ==
    LET vs == Range(CtorVariables(m, init))
    IN  /\ ModelLabels(m) \subseteq vs
        /\ SetStateResult(vs, <<>>, CtorInitialState(m, init)).raised = "none"

\* ----------------------------------------------------------------- state
VARIABLES
    model,          \* the Hamiltonian handed to the constructor
    variables,      \* self._variables
    initial_state,  \* self._initial_state
    memory,         \* self._memory
    subgraphs,      \* self._subgraphs
    state,          \* self._state
    past_states,    \* self._past_states
    pc,             \* "idle", or where a running update / schedule_update is
    phases,         \* the phases of a running schedule not yet started
    cur_T,          \* T of the running update
    sweeps_left,    \* single-sweep updates the running update still makes
    draws,          \* labels of the running sweep not yet evaluated
    last,           \* the last call made and how it ended
    ctor,           \* state and get_past_states() right after construction
    log,            \* pre-sweep states since construction or the last reset
    logCap,         \* sweeps the log records per epoch (0: log switched off)
    rng,            \* position of the random source, or Unknown
    boolean,        \* the object is a BooleanSimulation
    pubo,           \* the Boolean model a BooleanSimulation was given
    twin,           \* a second simulation, constructed alike, given the same calls,
                    \* and whether calls are recorded
    call,           \* the running or last call to update or schedule_update: the
                    \* engine before it, and what single-sweep updates make of it
    mat,            \* the entries of a QUBOMatrix, IsingCoupling or IsingField
    mkind,          \* its class
    mlast,          \* the last operation on it: its name, argument, error, result
    heap,           \* the dicts alive, by identity
    own,            \* the identities the simulation holds: _state, _initial_state
                    \* and the elements of _past_states
    held,           \* the identities the caller holds
    rlast,          \* the last step taken on the dicts and what it wrote
    peer,           \* another simulation of the same process, constructed alike:
                    \* its state and history, and whether it was called after
                    \* the first seeded call on this one
    graph,          \* a VertexCover or GraphPartitioning: its class, _edges,
                    \* _vertex_to_index, _N, _n and _degree
    glast           \* the last call on it: its name, arguments, error, result

\* the variables of the simulation
sim == <<model, variables, initial_state, memory, subgraphs, state, past_states,
         pc, phases, cur_T, sweeps_left, draws, last, ctor, log, logCap,
         rng, boolean, pubo, twin, call>>
\* the variables of the matrix classes
matrix == <<mat, mkind, mlast>>
\* the variables of the dicts by identity
refs == <<heap, own, held, rlast>>
\* the variables of the graph problems
problem == <<graph, glast>>
others == <<matrix, refs, peer, problem>>

vars == <<sim, matrix, refs, peer, problem>>

config == <<model, variables, initial_state, memory, subgraphs, ctor, logCap,
            boolean, pubo>>
control == <<pc, phases, cur_T, sweeps_left, draws>>

\* ------------------------------------------------------- pure operations
\* Python's seq[start:] on a 1-indexed sequence
PySliceFrom(seq, start) ==
    LET n == Len(seq)
        lo == IF start < 0 THEN (IF n + start < 0 THEN 0 ELSE n + start)
              ELSE (IF start > n THEN n ELSE start)
    IN  SubSeq(seq, lo + 1, n)

\* get_past_states slicing from -num_states
get_past_states_off_by_one(past, st, mem, has_n, n) ==
    IF has_n /\ n = 1 THEN <<st>>
    ELSE LET num_states == IF has_n THEN n ELSE mem
         IN  PySliceFrom(past, -num_states) \o <<st>>

\* get_past_states(num_states); has_n = FALSE is num_states=None
get_past_states(past, st, mem, has_n, n) ==
    IF has_n /\ n = 1 THEN <<st>>
    ELSE LET num_states == IF has_n THEN n ELSE mem
         IN  PySliceFrom(past, -num_states + 1) \o <<st>>

\* _add_past_state without the eviction
add_past_state_no_evict(past, st, mem) ==
    IF mem # 0 THEN Append(past, st) ELSE past

\* _add_past_state evicting the newest snapshot, pop() for pop(0)
add_past_state_pop_last(past, st, mem) ==
    IF mem # 0
    THEN LET a == Append(past, st)
         IN  IF Len(a) > mem THEN SubSeq(a, 1, Len(a) - 1) ELSE a
    ELSE past

\* _add_past_state with the memory test guarding only the eviction
add_past_state_no_guard(past, st, mem) ==
    LET a == Append(past, st)
    IN  IF mem # 0 /\ Len(a) > mem THEN Tail(a) ELSE a

\* _add_past_state
add_past_state(past, st, mem) ==
    IF mem # 0
    THEN LET a == Append(past, st)
         IN  IF Len(a) > mem THEN Tail(a) ELSE a
    ELSE past

\* _flip_bit
flip_bit(st, label) == [st EXCEPT ![label] = -1 * @]

\* the change in energy with the sign dropped
dE_unsigned(st, sub, i) == 2 * puso_value(st, sub[i])

\* the change in energy update computes for flipping variable i
dE(st, sub, i) == -2 * puso_value(st, sub[i])

\* the outcomes random.random() < exp(-dE / T) can have where update evaluates
\* it (dE > 0 and T nonzero): either one for T > 0, always true for T < 0 as
\* exp(-dE / T) > 1; FALSE stands for the test not being evaluated
AcceptDraws(d, T) ==
    IF d <= 0 \/ T = 0 THEN {FALSE}
    ELSE IF T < 0 THEN {TRUE}
    ELSE BOOLEAN

\* the acceptance test with the comparison turned round
AcceptUphill(d, T, u) == d >= 0 \/ (T # 0 /\ u)

\* update's acceptance test, u the outcome of the random comparison
Accept(d, T, u) == d <= 0 \/ (T # 0 /\ u)

\* one candidate of a sweep: state after evaluating label i
Evaluate(st, sub, T, i, u) ==
    IF Accept(dE(st, sub, i), T, u) THEN flip_bit(st, i) ELSE st

\* the full energy of a state, summed over the whole model
Energy(st) == puso_value(st, model)

\* ------------------------------------------------------ the random source
\* The module-level generator of `random`, shared by every simulation of the
\* process.  A position of the source is the seed it was last given and the
\* number of draws taken since: seed * Stride + draws.  Unknown is a source
\* that is not followed: every outcome of a draw is possible and the position
\* stays Unknown.  A source is followed for TapeLen draws after a seed.
Unknown == -1

\* row s + 1: what random.random() returns, call after call, after
\* random.seed(s), for s = 0 .. 3 (CPython 3), in millionths rounded down
Twister ==
    <<<<844421, 757954, 420571, 258916, 511274, 404934, 783798, 303312,
        476596, 583382, 908112, 504686, 281837, 755804, 618368, 250506>>,
      <<134364, 847433, 763774, 255069, 495435, 449491, 651592, 788723,
        93859, 28347, 835765, 432767, 762280, 2106, 445387, 721540>>,
      <<956034, 947827, 56551, 84871, 835498, 735969, 669730, 308136,
        605944, 606801, 581204, 158382, 430669, 393531, 723012, 994819>>,
      <<237964, 544229, 369955, 603920, 625720, 65528, 13167, 837469,
        259354, 234330, 995644, 470263, 836461, 476353, 639068, 150616>>>>

\* the positions set aside for one seed
Stride == TapeLen + 1

\* random.seed(seed)
SeedState(seed) == seed * Stride

\* the draws the source is still followed for from position r
Room(r) == IF r = Unknown THEN 0 ELSE TapeLen - (r % Stride)

\* random.random() from position r, in millionths
random_random(r) == Twister[(r \div Stride) + 1][(r % Stride) + 1]

\* the position after one draw
RngNext(r) == r + 1

\* the position after update's or schedule_update's `if seed is not None`
Seeded(r, seed) == IF seed = NoSeed THEN r ELSE SeedState(seed)

\* every draw n sweeps from position r take is among the first len after a seed
Within(r, n, len) == r = Unknown \/ (r % Stride) + 2 * n * Len(variables) <= len
\* the source is followed through every draw n sweeps from position r take
Covers(r, n) == Within(r, n, TapeLen)

RECURSIVE ScheduleSweeps(_)
\* the sweeps a schedule makes before it ends or raises
ScheduleSweeps(ph) ==
    IF ph = <<>> \/ Head(ph).n < 0 THEN 0 ELSE Head(ph).n + ScheduleSweeps(Tail(ph))

RECURSIVE Pow(_, _)
Pow(b, k) == IF k = 0 THEN 1 ELSE b * Pow(b, k - 1)

\* math.exp(-d / T) in millionths rounded down, for T = 1 and T = 2 and d > 0
ExpMinus ==
    <<<<367879, 135335, 49787, 18315, 6737, 2478, 911, 335,
      123, 45, 16, 6, 2, 0, 0, 0>>,
      <<606530, 367879, 223130, 135335, 82084, 49787, 30197, 18315,
      11108, 6737, 4086, 2478, 1503, 911, 553, 335,
      203, 123, 74, 45, 27, 16, 10, 6,
      3, 2, 1, 0, 0, 0, 0, 0>>>>
exp_minus(d, T) == IF d > 16 * T THEN 0 ELSE ExpMinus[T][d]

\* random.random() < exp(-d / T) for the draw v (in millionths), d > 0 and
\* T # 0.  For T < 0 the bound exceeds 1.  No draw of the table and no value
\* of exp_minus falls in the same millionth, so the test on the millionths
\* is the test on the floats.
RandomBelowExp(v, d, T) ==
    IF T < 0 THEN TRUE ELSE v < exp_minus(d, T)

RECURSIVE RandomChoices(_, _, _)
\* random.choices(pop, k=k) from position r: the labels drawn and the
\* position reached, each pick being pop[floor(random() * len(pop))]
RandomChoices(r, pop, k) ==
    IF k = 0 THEN [draws |-> <<>>, rng |-> r]
    ELSE LET rest == RandomChoices(RngNext(r), pop, k - 1)
         IN  [draws |-> <<pop[(random_random(r) * Len(pop)) \div Million + 1]>> \o rest.draws,
              rng |-> rest.rng]

\* what random.sample(self._variables, len(self._variables)) can return from a
\* source nobody seeded: the orderings of the variables, none drawn twice
SampleOutcome(r, vs) ==
    {[draws |-> d, rng |-> r] :
        d \in {x \in [1 .. Len(vs) -> Range(vs)] : \A a, b \in DOMAIN x : x[a] = x[b] => a = b}}

\* what random.choices(self._variables, k=len(self._variables)) can return,
\* vs the list self._variables
ChoicesOutcome(r, vs) ==
    IF Room(r) < Len(vs)
    THEN {[draws |-> d, rng |-> Unknown] : d \in [1 .. Len(vs) -> Range(vs)]}
    ELSE {RandomChoices(r, vs, Len(vs))}

\* the random comparison evaluated for every candidate, a draw taken each time
AcceptOutcomeAlwaysDraws(d, T, r) ==
    IF Room(r) < 1 THEN {[u |-> u, rng |-> Unknown] : u \in AcceptDraws(d, T)}
    ELSE {[u |-> d > 0 /\ T # 0 /\ RandomBelowExp(random_random(r), d, T), rng |-> RngNext(r)]}

\* the outcome u of the random comparison of one candidate and the position
\* after it: `dE <= 0 or (T and random.random() < ...)` draws only when
\* dE > 0 and T is nonzero
AcceptOutcome(d, T, r) ==
    IF r = Unknown THEN {[u |-> u, rng |-> Unknown] : u \in AcceptDraws(d, T)}
    ELSE IF d <= 0 \/ T = 0 THEN {[u |-> FALSE, rng |-> r]}
    ELSE IF Room(r) < 1 THEN {[u |-> u, rng |-> Unknown] : u \in AcceptDraws(d, T)}
    ELSE {[u |-> RandomBelowExp(random_random(r), d, T), rng |-> RngNext(r)]}

\* ------------------------------------------------- the Boolean subclass
\* qubovert.utils.spin_to_boolean and boolean_to_spin on a dict
spin_to_boolean(st) == [v \in DOMAIN st |-> (1 - st[v]) \div 2]
boolean_to_spin(b) == [v \in DOMAIN b |-> 1 - 2 * b[v]]

\* BooleanSimulation.set_state storing the state before it checks the values
BoolSetStateAssignFirst(vs, cur, arg) ==
    IF ~(vs \subseteq DOMAIN arg)
    THEN [state |-> cur, raised |-> "KeyError"]
    ELSE LET new == [v \in vs |-> arg[v]]
         IN  [state |-> boolean_to_spin(new),
              raised |-> IF \E v \in vs : new[v] \notin {0, 1}
                         THEN "ValueError" ELSE "none"]

\* BooleanSimulation.set_state(arg) on current internal state cur: restrict,
\* check the values, and only then store the spin image
BoolSetStateResult(vs, cur, arg) ==
    IF ~(vs \subseteq DOMAIN arg)
    THEN [state |-> cur, raised |-> "KeyError"]
    ELSE LET new == [v \in vs |-> arg[v]]
         IN  IF \E v \in vs : new[v] \notin {0, 1}
             THEN [state |-> cur, raised |-> "ValueError"]
             ELSE [state |-> boolean_to_spin(new), raised |-> "none"]

\* self.set_state(arg), dispatched on the class of the object
set_state(isBool, vs, cur, arg) ==
    IF isBool THEN BoolSetStateResult(vs, cur, arg) ELSE SetStateResult(vs, cur, arg)

\* the `state` property of the bipolar class on a Boolean object
StateViewRaw(isBool, st) == st

\* the `state` property, dispatched on the class of the object
StateView(isBool, st) == IF isBool THEN spin_to_boolean(st) ELSE st

\* some variable of vs is given a value outside the domain of the class
BadValue(isBool, vs, arg) ==
    \E v \in vs \cap DOMAIN arg :
        arg[v] \notin (IF isBool THEN {0, 1} ELSE {1, -1})

\* ------------------------------------------------ calls run in one piece
\* An engine is a current state, a history, the position of the random
\* source it draws from and the list self._variables; the operators below run calls on an engine of the
\* constructed object's model, subclass and memory.
Engine(st, past, r, vs) == [state |-> st, past |-> past, rng |-> r, vs |-> vs]

RECURSIVE RunCandidates(_, _, _, _)
\* the loop over the drawn labels ds
RunCandidates(st, r, T, ds) ==
    IF ds = <<>> THEN [state |-> st, rng |-> r]
    ELSE LET o == CHOOSE x \in AcceptOutcome(dE(st, subgraphs, Head(ds)), T, r) : TRUE
         IN  RunCandidates(Evaluate(st, subgraphs, T, Head(ds), o.u), o.rng, T, Tail(ds))

\* update(T) with num_updates = 1
RunSweep(e, T) ==
    LET c == CHOOSE x \in ChoicesOutcome(e.rng, e.vs) : TRUE
        f == RunCandidates(e.state, c.rng, T, c.draws)
    IN  Engine(f.state,
               add_past_state(e.past, StateView(boolean, e.state), memory),
               f.rng, e.vs)

RECURSIVE RunSweeps(_, _, _)
\* update's loop over n single-sweep updates
RunSweeps(e, T, n) ==
    IF n <= 0 THEN e ELSE RunSweeps(RunSweep(e, T), T, n - 1)

\* update(T, n, seed)
RunUpdate(e, T, n, seed) ==
    LET s == [e EXCEPT !.rng = Seeded(e.rng, seed)]
    IN  IF n < 0 THEN s ELSE RunSweeps(s, T, n)

RECURSIVE RunPhases(_, _)
\* schedule_update's loop, ended by the first phase that raises
RunPhases(e, ph) ==
    IF ph = <<>> \/ Head(ph).n < 0 THEN e
    ELSE RunPhases(RunSweeps(e, Head(ph).T, Head(ph).n), Tail(ph))

\* schedule_update(schedule, seed)
RunSchedule(e, schedule, seed) ==
    RunPhases([e EXCEPT !.rng = Seeded(e.rng, seed)], schedule)

RECURSIVE SingleUpdates(_, _, _)
\* n calls update(T), each of one sweep and without a seed
SingleUpdates(e, T, n) ==
    IF n <= 0 THEN e ELSE SingleUpdates(RunUpdate(e, T, 1, NoSeed), T, n - 1)

RECURSIVE PhasesAsSingleUpdates(_, _)
\* for each phase (T, n) in order, n single-sweep calls update(T)
PhasesAsSingleUpdates(e, ph) ==
    IF ph = <<>> THEN e
    ELSE PhasesAsSingleUpdates(SingleUpdates(e, Head(ph).T, Head(ph).n), Tail(ph))

\* ------------------------------------------------------------------ Init
\* the last call: its name, how it ended, and in arg update's sweep count,
\* for reset 1 when the call changed the state or the history and else 0,
\* for set_state 1 when a value given to a variable is outside the domain,
\* for schedule_update 1 when a seed was given and else 0
Outcome(op, arg, raised) == [op |-> op, arg |-> arg, raised |-> raised]

NoEngine == Engine(<<>>, <<>>, Unknown, <<>>)
NoTwin == [on |-> FALSE, track |-> FALSE, first |-> "none", e |-> NoEngine]
\* no second simulation, the engine before each call recorded
TrackTwin == [on |-> FALSE, track |-> TRUE, first |-> "none", e |-> NoEngine]
NoCall == [before |-> NoEngine, ref |-> NoEngine, T |-> 0]

\* no matrix and no dicts are looked at
MatrixIdle == mat = <<>> /\ mkind = "none" /\ mlast = [op |-> "none"]
RefsIdle == heap = <<>> /\ own = <<>> /\ held = {} /\ rlast = [op |-> "none"]
\* no other simulation in the process
NoPeer == [state |-> <<>>, past |-> <<>>, after |-> FALSE]
PeerIdle == peer = NoPeer
\* no graph problem is constructed
NoProblem == [cls |-> "none"]
ProblemIdle == graph = NoProblem /\ glast = [op |-> "none"]

\* the object after __init__ ran through: m the bipolar model, vs the
\* variables, init the stored initial state, st the internal state
BuildSim(isBool, P, m, vs, init, given, st, mem, cap, r, tw) ==
    /\ model = m
    /\ variables = vs
    /\ initial_state = init
    /\ memory = mem
    /\ subgraphs = BuildSubgraphs(m, Range(vs))
    /\ state = st
    /\ past_states = <<>>
    /\ pc = "idle"
    /\ phases = <<>>
    /\ cur_T = 0
    /\ sweeps_left = 0
    /\ draws = <<>>
    /\ last = Outcome("__init__", 0, "none")
    /\ ctor = [state |-> StateView(isBool, st),
               past |-> get_past_states(<<>>, StateView(isBool, st), mem, FALSE, 0),
               given |-> given]
    /\ log = <<>>
    /\ logCap = cap
    /\ rng = r
    /\ boolean = isBool
    /\ pubo = P
    /\ twin = tw
    /\ call = NoCall

\* the same, with no matrix and no dicts by identity looked at
Build(isBool, P, m, vs, init, given, st, mem, cap, r, tw) ==
    /\ BuildSim(isBool, P, m, vs, init, given, st, mem, cap, r, tw)
    /\ MatrixIdle
    /\ RefsIdle
    /\ PeerIdle
    /\ ProblemIdle

\* SpinSimulation(m, init, mem) with an unseeded random source
Construct(m, init, mem, cap) ==
    /\ ConstructOK(m, init)
    /\ Build(FALSE, <<>>, m, CtorVariables(m, init), CtorInitialState(m, init),
             init.given,
             SetStateResult(Range(CtorVariables(m, init)), <<>>, CtorInitialState(m, init)).state,
             mem, cap, Unknown, NoTwin)

Init ==
    \E m \in Models, init \in InitialArgs, mem \in 0 .. MaxMemory :
        Construct(m, init, mem, 0)

\* --------------------------------------------------------------- actions
\* the engine of the object
Here == Engine(state, past_states, rng, variables)

\* the second simulation after the same call, b what the call makes of it
TwinAfter(b, seed, isUpdate) ==
    IF twin.on
    THEN [twin EXCEPT !.e = b,
                      !.first = IF @ = "none" /\ isUpdate
                                THEN (IF seed = NoSeed THEN "unseeded" ELSE "seeded")
                                ELSE @]
    ELSE twin

\* the record of a call to update or schedule_update; T is update's
\* temperature, and 0 for schedule_update
CallRecord(ref, T) ==
    IF twin.on THEN [before |-> Here, ref |-> ref, T |-> T]
    ELSE IF boolean \/ twin.track THEN [before |-> Here, ref |-> NoEngine, T |-> T]
    ELSE call

\* set_state(arg), called from outside
SetState(arg) ==
    /\ pc = "idle"
    /\ LET r == set_state(boolean, Range(variables), state, arg)
       IN  /\ state' = r.state
           /\ last' = Outcome("set_state",
                              IF BadValue(boolean, Range(variables), arg) THEN 1 ELSE 0,
                              r.raised)
    /\ twin' = TwinAfter([twin.e EXCEPT !.state =
                             set_state(boolean, Range(variables), twin.e.state, arg).state],
                         NoSeed, FALSE)
    /\ UNCHANGED <<others, config, control, past_states, log, rng, call>>

\* reset() leaving the history as it is
ResetKeepHistory ==
    /\ pc = "idle"
    /\ LET r == set_state(boolean, Range(variables), state, initial_state)
       IN  /\ state' = r.state
           /\ last' = Outcome("reset", IF state # r.state \/ past_states # <<>> THEN 1 ELSE 0,
                              r.raised)
    /\ log' = <<>>
    /\ twin' = TwinAfter([twin.e EXCEPT !.state =
                             set_state(boolean, Range(variables), twin.e.state, initial_state).state],
                         NoSeed, FALSE)
    /\ UNCHANGED <<others, config, control, past_states, rng, call>>

\* reset()
Reset ==
    /\ pc = "idle"
    /\ past_states' = <<>>
    /\ LET r == set_state(boolean, Range(variables), state, initial_state)
       IN  /\ state' = r.state
           /\ last' = Outcome("reset", IF state # r.state \/ past_states # <<>> THEN 1 ELSE 0,
                              r.raised)
    /\ log' = <<>>
    /\ twin' = TwinAfter([twin.e EXCEPT !.past = <<>>, !.state =
                             set_state(boolean, Range(variables), twin.e.state, initial_state).state],
                         NoSeed, FALSE)
    /\ UNCHANGED <<others, config, control, rng, call>>

\* update(T, n, seed) taking the snapshot before it checks n
UpdateSnapshotFirst(T, n, seed) ==
    /\ pc = "idle"
    /\ rng' = Seeded(rng, seed)
    /\ IF n < 0
       THEN /\ last' = Outcome("update", n, "ValueError")
            /\ past_states' = add_past_state(past_states, StateView(boolean, state), memory)
            /\ UNCHANGED control
       ELSE IF n = 0
       THEN /\ last' = Outcome("update", n, "none")
            /\ UNCHANGED <<control, past_states>>
       ELSE /\ last' = Outcome("update", n, "running")
            /\ pc' = "update"
            /\ cur_T' = T
            /\ sweeps_left' = n
            /\ UNCHANGED <<phases, draws, past_states>>
    /\ twin' = TwinAfter(RunUpdate(twin.e, T, n, seed), seed, TRUE)
    /\ call' = CallRecord(SingleUpdates([Here EXCEPT !.rng = Seeded(rng, seed)], T, n), T)
    /\ UNCHANGED <<others, config, state, log>>

\* update(T, n, seed) never calling random.seed, in this run and in the
\* second simulation's
UpdateSeedIgnored(T, n, seed) ==
    /\ pc = "idle"
    /\ rng' = rng
    /\ IF n < 0
       THEN /\ last' = Outcome("update", n, "ValueError")
            /\ UNCHANGED control
       ELSE IF n = 0
       THEN /\ last' = Outcome("update", n, "none")
            /\ UNCHANGED control
       ELSE /\ last' = Outcome("update", n, "running")
            /\ pc' = "update"
            /\ cur_T' = T
            /\ sweeps_left' = n
            /\ UNCHANGED <<phases, draws>>
    /\ twin' = TwinAfter(RunUpdate(twin.e, T, n, NoSeed), seed, TRUE)
    /\ call' = CallRecord(SingleUpdates(Here, T, n), T)
    /\ UNCHANGED <<others, config, state, past_states, log>>

\* update(T, n, seed), called from outside: the seeding, the argument check,
\* and the entry into the loop over single-sweep updates
Update(T, n, seed) ==
    /\ pc = "idle"
    /\ rng' = Seeded(rng, seed)
    /\ IF n < 0
       THEN /\ last' = Outcome("update", n, "ValueError")
            /\ UNCHANGED control
       ELSE IF n = 0
       THEN /\ last' = Outcome("update", n, "none")
            /\ UNCHANGED control
       ELSE /\ last' = Outcome("update", n, "running")
            /\ pc' = "update"
            /\ cur_T' = T
            /\ sweeps_left' = n
            /\ UNCHANGED <<phases, draws>>
    /\ twin' = TwinAfter(RunUpdate(twin.e, T, n, seed), seed, TRUE)
    /\ call' = CallRecord(SingleUpdates([Here EXCEPT !.rng = Seeded(rng, seed)], T, n), T)
    /\ UNCHANGED <<others, config, state, past_states, log>>

\* schedule_update(schedule, seed) never calling random.seed
ScheduleUpdateSeedIgnored(schedule, seed) ==
    /\ pc = "idle"
    /\ rng' = rng
    /\ IF schedule = <<>>
       THEN /\ last' = Outcome("schedule_update", IF seed = NoSeed THEN 0 ELSE 1, "none")
            /\ UNCHANGED control
       ELSE /\ last' = Outcome("schedule_update", IF seed = NoSeed THEN 0 ELSE 1, "running")
            /\ pc' = "schedule"
            /\ phases' = schedule
            /\ UNCHANGED <<cur_T, sweeps_left, draws>>
    /\ twin' = TwinAfter(RunSchedule(twin.e, schedule, seed), seed, TRUE)
    /\ call' = CallRecord(PhasesAsSingleUpdates([Here EXCEPT !.rng = Seeded(rng, seed)],
                                                schedule), 0)
    /\ UNCHANGED <<others, config, state, past_states, log>>

\* schedule_update(schedule, seed), called from outside: the seeding and the
\* entry into the loop over the phases
ScheduleUpdate(schedule, seed) ==
    /\ pc = "idle"
    /\ rng' = Seeded(rng, seed)
    /\ IF schedule = <<>>
       THEN /\ last' = Outcome("schedule_update", IF seed = NoSeed THEN 0 ELSE 1, "none")
            /\ UNCHANGED control
       ELSE /\ last' = Outcome("schedule_update", IF seed = NoSeed THEN 0 ELSE 1, "running")
            /\ pc' = "schedule"
            /\ phases' = schedule
            /\ UNCHANGED <<cur_T, sweeps_left, draws>>
    /\ twin' = TwinAfter(RunSchedule(twin.e, schedule, seed), seed, TRUE)
    /\ call' = CallRecord(PhasesAsSingleUpdates([Here EXCEPT !.rng = Seeded(rng, seed)],
                                                schedule), 0)
    /\ UNCHANGED <<others, config, state, past_states, log>>

\* schedule_update's loop body: self.update(T, n) for the next phase
PhaseStart ==
    /\ pc = "schedule"
    /\ LET ph == Head(phases)
       IN  IF ph.n < 0
           THEN /\ last' = Outcome(last.op, last.arg, "ValueError")
                /\ pc' = "idle"
                /\ phases' = <<>>
                /\ UNCHANGED <<cur_T, sweeps_left>>
           ELSE IF ph.n = 0
           THEN /\ phases' = Tail(phases)
                /\ pc' = IF Tail(phases) = <<>> THEN "idle" ELSE "schedule"
                /\ last' = IF Tail(phases) = <<>> THEN Outcome(last.op, last.arg, "none") ELSE last
                /\ UNCHANGED <<cur_T, sweeps_left>>
           ELSE /\ phases' = Tail(phases)
                /\ pc' = "update"
                /\ cur_T' = ph.T
                /\ sweeps_left' = ph.n
                /\ last' = last
    /\ UNCHANGED <<others, config, state, past_states, draws, log, rng, twin, call>>

\* where control goes when a sweep ends with `left` sweeps still to make
AfterSweep(left) ==
    /\ sweeps_left' = left
    /\ pc' = IF left > 0 THEN "update" ELSE IF phases # <<>> THEN "schedule" ELSE "idle"
    /\ cur_T' = IF left > 0 THEN cur_T ELSE 0
    /\ last' = IF left = 0 /\ phases = <<>> THEN Outcome(last.op, last.arg, "none") ELSE last

\* the head of a single-sweep update: the snapshot, then random.choices
SweepBegin ==
    /\ pc = "update"
    /\ logCap = 0 \/ Len(log) < logCap
    /\ past_states' = add_past_state(past_states, StateView(boolean, state), memory)
    /\ log' = IF logCap > 0 THEN Append(log, state) ELSE log
    /\ \E c \in ChoicesOutcome(rng, variables) :
          /\ draws' = c.draws
          /\ rng' = c.rng
          /\ IF c.draws = <<>>
             THEN AfterSweep(sweeps_left - 1)
             ELSE /\ pc' = "sweep"
                  /\ UNCHANGED <<cur_T, sweeps_left, last>>
    /\ UNCHANGED <<others, config, state, phases, twin, call>>

\* one pass of the loop over the drawn labels
Candidate ==
    /\ pc = "sweep"
    /\ LET i == Head(draws)
       IN  \E o \in AcceptOutcome(dE(state, subgraphs, i), cur_T, rng) :
              /\ state' = Evaluate(state, subgraphs, cur_T, i, o.u)
              /\ rng' = o.rng
    /\ draws' = Tail(draws)
    /\ IF Tail(draws) = <<>>
       THEN AfterSweep(sweeps_left - 1)
       ELSE UNCHANGED <<pc, cur_T, sweeps_left, last>>
    /\ UNCHANGED <<others, config, past_states, phases, log, twin, call>>

Next ==
    \/ \E arg \in StateArgs : SetState(arg)
    \/ Reset
    \/ \E T \in Temps, n \in Counts : Update(T, n, NoSeed)
    \/ \E schedule \in Schedules : ScheduleUpdate(schedule, NoSeed)
    \/ PhaseStart
    \/ SweepBegin
    \/ Candidate

Spec == Init /\ [][Next]_vars

\* ------------------------------------------- further specifications
\* The engine with the sweep log switched on: one model, every memory.
InitHist ==
    \E mem \in 0 .. MaxMemory : Construct(ModelMixed, NoInitial, mem, MaxLog)

SpecHist == InitHist /\ [][Next]_vars

\* The delta computation over a wider family of models, among them models
\* with a three-label term and models that repeat a label inside a term.
DeltaTerms == {<<>>, <<1>>, <<3>>, <<1, 2>>, <<2, 3>>, <<3, 1>>, <<1, 2, 3>>,
               <<1, 1>>, <<2, 1, 2>>}
DeltaCoeffs == {-1, 2}
DeltaModels ==
    UNION {[S -> DeltaCoeffs] : S \in {X \in SUBSET DeltaTerms : Cardinality(X) <= 2}}

InitDelta == \E m \in DeltaModels : Construct(m, NoInitial, 0, 0)

NextDelta ==
    \/ \E T \in Temps : Update(T, 1, NoSeed)
    \/ SweepBegin
    \/ Candidate

SpecDelta == InitDelta /\ [][NextDelta]_vars

\* Calls that carry a negative temperature, and no other update calls.
NegTemps == {-1, -2}
NegSchedules == {<<Phase(-1, 1)>>, <<Phase(-2, 1), Phase(-1, 2)>>}

InitNegT ==
    \E m \in Models, mem \in 0 .. MaxMemory : Construct(m, NoInitial, mem, 0)

NextNegT ==
    \/ \E T \in NegTemps, n \in 1 .. MaxSweeps : Update(T, n, NoSeed)
    \/ \E schedule \in NegSchedules : ScheduleUpdate(schedule, NoSeed)
    \/ PhaseStart
    \/ SweepBegin
    \/ Candidate

SpecNegT == InitNegT /\ [][NextNegT]_vars

\* Two simulations with a tracked random source each: the object, and a
\* second one constructed with the same model, an equal initial state and the
\* same memory, in a run of its own whose source starts at a position of its
\* own, and given every call the object is given.  Once the two have parted
\* no further call is made.
SeedModels == {ModelPair, ModelMixed}
SeedMemories == {0, 1}
\* draws after a seed within which calls are made
SeedLen == 8
\* initial_state dicts given to the two: {2: 1, 1: 1} and {2: 1, 1: 1},
\* {2: 1, 1: 1} and the equal dict {1: 1, 2: 1}
AllOnes == (1 :> 1) @@ (2 :> 1)
SeedInitials == {<<Initial(AllOnes, <<2, 1>>), Initial(AllOnes, <<2, 1>>)>>,
                 <<Initial(AllOnes, <<2, 1>>), Initial(AllOnes, <<1, 2>>)>>}
\* where the process left the random source before the run: as
\* random.seed(1) and as random.seed(2) leave it
StartPositions == {SeedState(1), SeedState(2)}
SeedStateArgs == {[l \in Labels |-> -1]}

\* SpinSimulation(m, init, mem) in a process whose source is at r, and
\* SpinSimulation(m, initB, mem) in one whose source is at rB
ConstructTwo(m, init, initB, mem, r, rB) ==
    LET st == SetStateResult(Range(CtorVariables(m, init)), <<>>,
                             CtorInitialState(m, init)).state
    IN  /\ ConstructOK(m, init)
        /\ ConstructOK(m, initB)
        /\ Build(FALSE, <<>>, m, CtorVariables(m, init), CtorInitialState(m, init),
                 init.given, st, mem, 0, r,
                 [on |-> TRUE, track |-> TRUE, first |-> "none",
                  e |-> Engine(st, <<>>, rB, CtorVariables(m, initB))])

InitSeed ==
    \/ \E m \in SeedModels, mem \in SeedMemories, rB \in StartPositions :
          ConstructTwo(m, NoInitial, NoInitial, mem, SeedState(1), rB)
    \/ \E m \in SeedModels, i \in SeedInitials :
          ConstructTwo(m, i[1], i[2], 1, SeedState(1), SeedState(2))

\* the two runs have parted: a first update call went unseeded, or the two
\* list their variables in different orders and are in different states
Parted ==
    \/ twin.first = "unseeded"
    \/ twin.e.vs # variables /\ (twin.e.state # state \/ twin.e.past # past_states)

NextSeed ==
    \/ /\ ~Parted
       /\ \/ \E arg \in SeedStateArgs : SetState(arg)
          \/ Reset
          \/ \E T \in Temps, n \in Counts, seed \in SeedArgs :
                /\ Within(Seeded(rng, seed), n, SeedLen)
                /\ Within(Seeded(twin.e.rng, seed), n, SeedLen)
                /\ Update(T, n, seed)
          \/ \E schedule \in Schedules, seed \in SeedArgs :
                /\ Within(Seeded(rng, seed), ScheduleSweeps(schedule), SeedLen)
                /\ Within(Seeded(twin.e.rng, seed), ScheduleSweeps(schedule), SeedLen)
                /\ ScheduleUpdate(schedule, seed)
    \/ PhaseStart
    \/ SweepBegin
    \/ Candidate

SpecSeed == InitSeed /\ [][NextSeed]_vars

\* Schedules of several sweeps on a followed source: the object alone, its
\* source followed through every draw of the longest schedule.
InitSched ==
    \E m \in SeedModels, mem \in SeedMemories, i \in {NoInitial, Initial(AllOnes, <<2, 1>>)} :
        ConstructTwo(m, i, i, mem, SeedState(1), SeedState(1))

NextSched ==
    \/ Reset
    \/ \E schedule \in Schedules, seed \in SeedArgs :
          /\ Covers(Seeded(rng, seed), ScheduleSweeps(schedule))
          /\ ScheduleUpdate(schedule, seed)
    \/ PhaseStart
    \/ SweepBegin
    \/ Candidate

SpecSched == InitSched /\ [][NextSched]_vars

\* The Boolean subclass.  qubovert.utils.pubo_to_puso is not part of the
\* sources at hand; it is taken from its description: every Boolean variable
\* b is substituted by (1 - s) / 2, every term expanded, the resulting terms
\* merged by summing coefficients, and terms of coefficient zero dropped.  A
\* term of arity a contributes P[k] * (-1)^|S| / 2^a to every subset S of its
\* labels.  To keep coefficients integral the bipolar model is held scaled by
\* Scale(P) = 2^(largest arity of P); a positive factor on every delta changes
\* no sign, and so no decision at temperature 0 and no set of possible
\* decisions of an unseeded source at a positive temperature.
MaxBoolSweeps == 5
BoolCounts == {-1, 0, 1, 2, MaxBoolSweeps}
BoolMemories == {0, 1}

BoolSingle == (<<1>> :> 1)
BoolModels == {BoolSingle,
               (<<1>> :> 1) @@ (<<1, 2>> :> -2),
               (<<1, 2>> :> 2) @@ (<<1>> :> -1),
               (<<>> :> 2) @@ (<<2>> :> -1) @@ (<<1, 2>> :> 1)}
BoolInitialArgs ==
    {NoInitial, Initial((1 :> 1), <<1>>), Initial((1 :> 1) @@ (2 :> 0), <<1, 2>>),
     Initial((1 :> 0) @@ (2 :> 1), <<1, 2>>)}
\* set_state arguments: every Boolean assignment of the labels, two with a
\* value outside {0, 1}, and one that lacks label 2
BoolStateArgs ==
    [Labels -> {0, 1}] \cup {(1 :> 2) @@ (2 :> 0), (1 :> -1) @@ (2 :> 1), (1 :> 0)}

RECURSIVE MaxArity(_, _)
\* the largest arity among the terms S
MaxArity(P, S) ==
    IF S = {} THEN 0
    ELSE LET k == CHOOSE x \in S : TRUE
             rest == MaxArity(P, S \ {k})
         IN  IF Len(k) > rest THEN Len(k) ELSE rest

Scale(P) == Pow(2, MaxArity(P, DOMAIN P))

RECURSIVE PusoCoeff(_, _, _)
\* Scale(P) times the coefficient the expansion gives the bipolar term over
\* the labels S, summed over the Boolean terms K that contain S
PusoCoeff(P, S, K) ==
    IF K = {} THEN 0
    ELSE LET k == CHOOSE x \in K : TRUE
             part == IF S \subseteq Range(k)
                     THEN P[k] * Pow(-1, Cardinality(S))
                               * Pow(2, MaxArity(P, DOMAIN P) - Len(k))
                     ELSE 0
         IN  part + PusoCoeff(P, S, K \ {k})

\* qubovert.utils.pubo_to_puso, scaled by Scale(P): the expansion, merged
\* and pruned
pubo_to_puso(P) ==
    LET cand == {SortedSeq(S) : S \in UNION {SUBSET Range(k) : k \in DOMAIN P}}
    IN  [t \in {c \in cand : PusoCoeff(P, Range(c), DOMAIN P) # 0}
            |-> PusoCoeff(P, Range(t), DOMAIN P)]

\* the value of the Boolean model P at the Boolean assignment b
pubo_value(b, P) == SumTerms(b, P, DOMAIN P)

\* the default initial state copied from the bipolar class
BoolCtorInitialOnes(vs, init) ==
    IF init.given THEN init.dict ELSE [v \in vs |-> 1]

\* the initial state BooleanSimulation.__init__ hands on
BoolCtorInitialState(vs, init) ==
    IF init.given THEN init.dict ELSE [v \in vs |-> 0]

\* BooleanSimulation(P, init, mem), for arguments the constructor accepts
ConstructBool(P, init, mem) ==
    LET m == pubo_to_puso(P)
        vs == ModelLabels(m)
        ini == BoolCtorInitialState(vs, init)
        r == set_state(TRUE, vs, <<>>, ini)
    IN  /\ r.raised = "none"
        /\ Build(TRUE, P, m, SortedSeq(vs), ini, init.given, r.state, mem, 0, Unknown, NoTwin)

InitBool ==
    \E P \in BoolModels, init \in BoolInitialArgs, mem \in BoolMemories :
        ConstructBool(P, init, mem)

NextBool ==
    \/ \E arg \in BoolStateArgs : SetState(arg)
    \/ Reset
    \/ \E T \in Temps, n \in BoolCounts : Update(T, n, NoSeed)
    \/ SweepBegin
    \/ Candidate

SpecBool == InitBool /\ [][NextBool]_vars

\* The scenario chain: four variables, couplings of -1 between neighbours,
\* updates at temperature 0 only, from the states set_state can set.
MaxChainSweeps == 10
ChainLabels == 1 .. 4
ModelChain == (<<1, 2>> :> -1) @@ (<<2, 3>> :> -1) @@ (<<3, 4>> :> -1)
AllUp == [l \in ChainLabels |-> 1]
ChainStateArgs == {AllUp, [l \in ChainLabels |-> -1],
                   [l \in ChainLabels |-> IF l = 2 THEN -1 ELSE 1],
                   [l \in ChainLabels |-> IF l % 2 = 0 THEN -1 ELSE 1]}

InitChain ==
    /\ ConstructOK(ModelChain, NoInitial)
    /\ Build(FALSE, <<>>, ModelChain, CtorVariables(ModelChain, NoInitial),
             CtorInitialState(ModelChain, NoInitial), FALSE,
             SetStateResult(Range(CtorVariables(ModelChain, NoInitial)), <<>>,
                            CtorInitialState(ModelChain, NoInitial)).state,
             0, 0, Unknown, TrackTwin)

NextChain ==
    \/ \E arg \in ChainStateArgs : SetState(arg)
    \/ \E n \in {1, MaxChainSweeps} : Update(0, n, NoSeed)
    \/ SweepBegin
    \/ Candidate

SpecChain == InitChain /\ [][NextChain]_vars

\* ------------------------------------------------- the matrix classes
\* QUBOMatrix, IsingCoupling and IsingField are dicts with some methods
\* overridden.  A key is a Python object: a tuple of integers or an integer.
\* Coefficients are Python numbers: integers of magnitude up to MaxCoeff and,
\* in SpecFloat, the floats b * 2.0 ** 53 + a for b in {1, -1} and small a.
\* The number b * 2 ** 53 + a is held as b * Huge + a, the integers at hand
\* having 32 bits.
MaxCoeff == 3
Huge == 100000
Kinds == {"QUBOMatrix", "IsingCoupling", "IsingField"}

\* the key (a, b), the key (a,) and the key a
KT(a, b) == [tuple |-> TRUE, items |-> <<a, b>>]
KT1(a) == [tuple |-> TRUE, items |-> <<a>>]
KI(a) == [tuple |-> FALSE, items |-> <<a>>]
\* an item of a plain dict
E(k, v) == [k |-> k, v |-> v]

KeyArgs == {KT(0, 0), KT(0, 1), KT(1, 0), KT(0, -1), KT1(1), KI(0), KI(1), KI(-1)}
ValueArgs == {-1, 0, 2}
StepArgs == {1, -2}
Scalars == {-1, 0, 2}
\* plain dicts, as the sequence of their items: among them the dicts of the
\* docstrings, dicts that name a term under both orders, and dicts with an
\* invalid key after a valid one
GArgs == {<<>>,
          <<E(KT(0, 1), 1), E(KT(1, 0), 2), E(KT(2, 0), 0)>>,
          <<E(KT(0, 0), 1), E(KT(1, 0), 2), E(KT(2, 0), 0)>>,
          <<E(KT(0, 1), 1), E(KT(1, 0), -1)>>,
          <<E(KT(0, 0), 0), E(KT(1, 0), 1), E(KT(0, 1), -1)>>,
          <<E(KT(0, 1), 1), E(KT(0, -1), 1)>>,
          <<E(KT(0, 1), 2), E(KT(1, 1), 0)>>,
          <<E(KI(0), 1), E(KI(1), -1)>>,
          <<E(KI(1), 2), E(KI(-1), 1)>>,
          <<E(KI(0), 1), E(KI(1), 0)>>}

RECURSIVE Insert(_, _)
\* x put into the ascending sequence s
Insert(x, s) ==
    IF s = <<>> THEN <<x>>
    ELSE IF x <= Head(s) THEN <<x>> \o s
    ELSE <<Head(s)>> \o Insert(x, Tail(s))

RECURSIVE SortInts(_)
\* sorted(s)
SortInts(s) == IF s = <<>> THEN <<>> ELSE Insert(Head(s), SortInts(Tail(s)))

\* the key used as it is given, never sorted
KeyAsGiven(key) == key

\* tuple(sorted(key)), and the key itself where sorted raises TypeError
SortedKey(key) ==
    IF key.tuple THEN [key EXCEPT !.items = SortInts(key.items)] ELSE key

\* a lookup under the key as given: self.get(key, 0)
getitem_unsorted(d, key) == IF key \in DOMAIN d THEN d[key] ELSE 0

\* QUBOMatrix.__getitem__: self.get(k, 0)
getitem(d, key) ==
    LET k == SortedKey(key) IN IF k \in DOMAIN d THEN d[k] ELSE 0

\* what a method leaves in the dict and the error it raises
R(d, raised) == [d |-> d, raised |-> raised]

\* dict.__setitem__(k, value)
Put(d, k, value) == [x \in DOMAIN d \cup {k} |-> IF x = k THEN value ELSE d[x]]

\* self.pop(k, 0)
Pop(d, k) == [x \in DOMAIN d \ {k} |-> d[x]]

\* a tail of __setitem__ that stores whatever value it is given
StoreAny(d, k, value) == Put(d, k, value)

\* the tail of __setitem__: store a nonzero value, remove the key otherwise
Store(d, k, value) == IF value # 0 THEN Put(d, k, value) ELSE Pop(d, k)

\* QUBOMatrix.__setitem__
QUBOMatrix_setitem(d, key, value) ==
    IF ~key.tuple \/ Len(key.items) # 2
    THEN R(d, "KeyError")
    ELSE IF key.items[1] < 0 \/ key.items[2] < 0
    THEN R(d, "KeyError")
    ELSE R(Store(d, SortedKey(key), value), "none")

\* an IsingCoupling.__setitem__ that compares the labels only when the value
\* is not zero
IsingCoupling_setitem_nonzero(d, key, value) ==
    IF ~key.tuple THEN R(d, "KeyError")
    ELSE IF Len(key.items) < 2 THEN R(d, "IndexError")
    ELSE IF value # 0 /\ key.items[1] = key.items[2] THEN R(d, "KeyError")
    ELSE QUBOMatrix_setitem(d, key, value)

\* IsingCoupling.__setitem__: key[0] == key[1] is evaluated on any tuple
IsingCoupling_setitem(d, key, value) ==
    IF ~key.tuple THEN R(d, "KeyError")
    ELSE IF Len(key.items) < 2 THEN R(d, "IndexError")
    ELSE IF key.items[1] = key.items[2] THEN R(d, "KeyError")
    ELSE QUBOMatrix_setitem(d, key, value)

\* IsingField.__setitem__
IsingField_setitem(d, key, value) ==
    IF key.tuple THEN R(d, "KeyError")
    ELSE IF key.items[1] < 0 THEN R(d, "KeyError")
    ELSE R(Store(d, key, value), "none")

\* self[key] = value, dispatched on the class
setitem(kind, d, key, value) ==
    CASE kind = "QUBOMatrix" -> QUBOMatrix_setitem(d, key, value)
      [] kind = "IsingCoupling" -> IsingCoupling_setitem(d, key, value)
      [] kind = "IsingField" -> IsingField_setitem(d, key, value)

\* the number x is held as it is: it is an integer below 2 ** 53
IsInt(x) == -(Huge \div 2) < x /\ x < Huge \div 2

\* the distance between neighbouring floats at b * 2 ** 53 + a, for b >= 0
\* and small a: 1 below 2 ** 53, 2 from there to 2 ** 54, 4 beyond
Spacing(b, a) ==
    IF b = 0 THEN 1
    ELSE IF b = 1 THEN (IF a < 0 THEN 1 ELSE 2)
    ELSE IF b = 2 /\ a < 0 THEN 2
    ELSE 4

\* a rounded to the nearest multiple of q, a tie going to the even multiple
\* (the float with the even mantissa)
RoundTo(a, q) ==
    LET lo == (a \div q) * q
        r == a - lo
    IN  IF 2 * r < q THEN lo
        ELSE IF 2 * r > q THEN lo + q
        ELSE IF (lo \div q) % 2 = 0 THEN lo ELSE lo + q

\* Python's x + y: exact on integers and on floats below 2 ** 53 in
\* magnitude, rounded to the nearest float beyond
PyAdd(x, y) ==
    LET s == x + y
        m == IF s < 0 THEN -s ELSE s
        b == (m + Huge \div 2) \div Huge
        a == m - b * Huge
        r == b * Huge + RoundTo(a, Spacing(b, a))
    IN  IF IsInt(s) THEN s ELSE IF s < 0 THEN -r ELSE r

RECURSIVE accumulate(_, _, _, _)
\* for k, v in items: self[k] += sign * v, ended by the first item that raises
accumulate(kind, d, g, sign) ==
    IF g = <<>> THEN R(d, "none")
    ELSE LET r == setitem(kind, d, Head(g).k, PyAdd(getitem(d, Head(g).k), sign * Head(g).v))
         IN  IF r.raised # "none" THEN r ELSE accumulate(kind, r.d, Tail(g), sign)

\* __iadd__ and __isub__
iadd(kind, d, g) == accumulate(kind, d, g, 1)
isub(kind, d, g) == accumulate(kind, d, g, -1)

\* an update that adds to the stored coefficients
update_accumulating(kind, d, g) == accumulate(kind, d, g, 1)

RECURSIVE update(_, _, _)
\* update: for k, v in dict(...).items(): self[k] = v
update(kind, d, g) ==
    IF g = <<>> THEN R(d, "none")
    ELSE LET r == setitem(kind, d, Head(g).k, Head(g).v)
         IN  IF r.raised # "none" THEN r ELSE update(kind, r.d, Tail(g))

RECURSIVE Items(_)
\* the items of a model, in an order of iteration
Items(d) ==
    IF DOMAIN d = {} THEN <<>>
    ELSE LET k == CHOOSE x \in DOMAIN d : TRUE
         IN  <<E(k, d[k])>> \o Items(Pop(d, k))

\* an __init__ that assigns every item: self[key] = value
init_overwriting(kind, g) == update(kind, <<>>, g)

\* __init__(g): the dict is built, emptied, and every item added to it
init(kind, g) == accumulate(kind, <<>>, g, 1)

\* copy(): type(self)(dict.copy(self))
copy(kind, d) == init(kind, Items(d)).d

\* Python's a // b for b # 0
PyFloorDiv(a, b) ==
    LET n == IF b > 0 THEN a ELSE -a
        m == IF b > 0 THEN b ELSE -b
    IN  IF n >= 0 THEN n \div m ELSE -((-n + m - 1) \div m)

\* the exact quotient a / b for b # 0, where it is an integer
ExactDiv(a, b) == PyFloorDiv(a, b)

RECURSIVE scale(_, _, _, _, _)
\* for k in tuple(self.keys()): self[k] <op>= c, for op "mul", "truediv"
\* or "floordiv"
scale(kind, d, ks, op, c) ==
    IF ks = <<>> THEN R(d, "none")
    ELSE IF op # "mul" /\ c = 0 THEN R(d, "ZeroDivisionError")
    ELSE LET k == Head(ks).k
             v == CASE op = "mul" -> getitem(d, k) * c
                    [] op = "truediv" -> ExactDiv(getitem(d, k), c)
                    [] op = "floordiv" -> PyFloorDiv(getitem(d, k), c)
             r == setitem(kind, d, k, v)
         IN  IF r.raised # "none" THEN r ELSE scale(kind, r.d, Tail(ks), op, c)

\* __imul__, __itruediv__, __ifloordiv__
imul(kind, d, c) == scale(kind, d, Items(d), "mul", c)
itruediv(kind, d, c) == scale(kind, d, Items(d), "truediv", c)
ifloordiv(kind, d, c) == scale(kind, d, Items(d), "floordiv", c)

\* __add__, __radd__, __sub__, __rsub__: on a copy, self left as it is
add(kind, d, g) == iadd(kind, copy(kind, d), g)
radd(kind, d, g) == add(kind, d, g)
sub(kind, d, g) == isub(kind, copy(kind, d), g)
rsub(kind, d, g) == add(kind, imul(kind, copy(kind, d), -1).d, g)

\* __mul__, __rmul__, __truediv__, __floordiv__
mul(kind, d, c) == imul(kind, copy(kind, d), c)
rmul(kind, d, c) == mul(kind, d, c)
truediv(kind, d, c) == itruediv(kind, copy(kind, d), c)
floordiv(kind, d, c) == ifloordiv(kind, copy(kind, d), c)

\* every coefficient is within the range modelled
Modelled(x) ==
    \/ x \in -MaxCoeff .. MaxCoeff
    \/ x - Huge \in -(MaxCoeff + 1) .. MaxCoeff + 1
    \/ x + Huge \in -(MaxCoeff + 1) .. MaxCoeff + 1
Bounded(d) == \A k \in DOMAIN d : Modelled(d[k])
\* c divides every coefficient, so that / gives integers
Divides(c, d) ==
    IF c = 0 THEN TRUE
    ELSE \A k \in DOMAIN d : d[k] % (IF c < 0 THEN -c ELSE c) = 0

\* the record of an operation: arg a key or a plain dict, val a value or a
\* scalar, result what the call returned (0 where it returned nothing)
MOp(op, arg, val, raised, result) ==
    [op |-> op, arg |-> arg, val |-> val, raised |-> raised, result |-> result]

\* a simulation that is constructed and never called
SimIdle ==
    BuildSim(FALSE, <<>>, ModelSingle, <<1>>, (1 :> 1), FALSE, (1 :> 1), 0, 0, Unknown, NoTwin)

\* kind(g): the object constructed, or the error and no object
InitMatrix ==
    /\ SimIdle
    /\ RefsIdle
    /\ PeerIdle
    /\ ProblemIdle
    /\ \E kind \in Kinds, g \in GArgs :
          LET r == init(kind, g)
          IN  /\ mkind = kind
              /\ mat = IF r.raised = "none" THEN r.d ELSE <<>>
              /\ mlast = MOp("__init__", g, 0, r.raised, 0)

\* there is an object to call
Alive == ~(mlast.op = "__init__" /\ mlast.raised # "none")

\* an in-place operation op with result r
InPlace(op, arg, val, r) ==
    /\ Alive
    /\ Bounded(r.d)
    /\ mat' = r.d
    /\ mlast' = MOp(op, arg, val, r.raised, 0)
    /\ UNCHANGED <<sim, refs, peer, problem, mkind>>

\* an operation that returns a new object r.d and leaves self as it is
Returning(op, arg, val, r) ==
    /\ Alive
    /\ Bounded(r.d)
    /\ mlast' = MOp(op, arg, val, r.raised, IF r.raised = "none" THEN r.d ELSE 0)
    /\ UNCHANGED <<sim, refs, peer, problem, mkind, mat>>

\* d[key] = value
MSetItem(key, value) == InPlace("setitem", key, value, setitem(mkind, mat, key, value))

\* d[key] += v: __getitem__, the sum, __setitem__
MAccumulate(key, v) ==
    InPlace("accumulate", key, v, setitem(mkind, mat, key, PyAdd(getitem(mat, key), v)))

\* a lookup that stores the default it returns, as a defaultdict does
MGetItemStoring(key) ==
    /\ Alive
    /\ mat' = IF SortedKey(key) \in DOMAIN mat THEN mat ELSE Put(mat, SortedKey(key), 0)
    /\ mlast' = MOp("getitem", key, 0, "none", getitem(mat, key))
    /\ UNCHANGED <<sim, refs, peer, problem, mkind>>

\* d[key]
MGetItem(key) ==
    /\ Alive
    /\ mlast' = MOp("getitem", key, 0, "none", getitem(mat, key))
    /\ UNCHANGED <<sim, refs, peer, problem, mkind, mat>>

MUpdate(g) == InPlace("update", g, 0, update(mkind, mat, g))
MIAdd(g) == InPlace("iadd", g, 0, iadd(mkind, mat, g))
MISub(g) == InPlace("isub", g, 0, isub(mkind, mat, g))
MIMul(c) == InPlace("imul", <<>>, c, imul(mkind, mat, c))
MITrueDiv(c) == Divides(c, mat) /\ InPlace("itruediv", <<>>, c, itruediv(mkind, mat, c))
MIFloorDiv(c) == InPlace("ifloordiv", <<>>, c, ifloordiv(mkind, mat, c))
\* a d + g that adds to d itself and returns it
MAddInPlace(g) ==
    LET r == iadd(mkind, mat, g)
    IN  /\ Alive
        /\ Bounded(r.d)
        /\ mat' = r.d
        /\ mlast' = MOp("add", g, 0, r.raised, IF r.raised = "none" THEN r.d ELSE 0)
        /\ UNCHANGED <<sim, refs, peer, problem, mkind>>
MAdd(g) == Returning("add", g, 0, add(mkind, mat, g))
MRAdd(g) == Returning("radd", g, 0, radd(mkind, mat, g))
MSub(g) == Returning("sub", g, 0, sub(mkind, mat, g))
MRSub(g) == Returning("rsub", g, 0, rsub(mkind, mat, g))
MMul(c) == Returning("mul", <<>>, c, mul(mkind, mat, c))
MRMul(c) == Returning("rmul", <<>>, c, rmul(mkind, mat, c))
MTrueDiv(c) == Divides(c, mat) /\ Returning("truediv", <<>>, c, truediv(mkind, mat, c))
MFloorDiv(c) == Returning("floordiv", <<>>, c, floordiv(mkind, mat, c))

NextMatrix ==
    \/ \E key \in KeyArgs, value \in ValueArgs : MSetItem(key, value)
    \/ \E key \in KeyArgs, v \in StepArgs : MAccumulate(key, v)
    \/ \E key \in KeyArgs : MGetItem(key)
    \/ \E g \in GArgs : MUpdate(g)
    \/ \E g \in GArgs : MIAdd(g)
    \/ \E g \in GArgs : MISub(g)
    \/ \E c \in Scalars : MIMul(c)
    \/ \E c \in Scalars : MITrueDiv(c)
    \/ \E c \in Scalars : MIFloorDiv(c)
    \/ \E g \in GArgs : MAdd(g)
    \/ \E g \in GArgs : MRAdd(g)
    \/ \E g \in GArgs : MSub(g)
    \/ \E g \in GArgs : MRSub(g)
    \/ \E c \in Scalars : MMul(c)
    \/ \E c \in Scalars : MRMul(c)
    \/ \E c \in Scalars : MTrueDiv(c)
    \/ \E c \in Scalars : MFloorDiv(c)

SpecMatrix == InitMatrix /\ [][NextMatrix]_vars

\* Addition and subtraction of plain dicts, among them dicts with float
\* coefficients: {(0, 1): 2.0 ** 53, (1, 0): -2.0 ** 53} and
\* {(0, 1): 2.0 ** 53}
FloatArgs == {<<E(KT(0, 1), Huge), E(KT(1, 0), -Huge)>>, <<E(KT(0, 1), Huge)>>}

NextFloat ==
    \/ \E g \in GArgs \cup FloatArgs : MIAdd(g)
    \/ \E g \in GArgs \cup FloatArgs : MISub(g)
    \/ \E g \in GArgs \cup FloatArgs : MAdd(g)
    \/ \E g \in GArgs \cup FloatArgs : MSub(g)

SpecFloat == InitMatrix /\ [][NextFloat]_vars

\* ------------------------------------------------- the dicts by identity
\* The simulation's _state, _initial_state and _past_states, and what its
\* accessors hand out, as objects on a heap: a dict over the single label 1
\* or a list of identities.  Two names for one identity share every change.
AliasMemory == 2
Dict(v) == [kind |-> "dict", val |-> v]
List(ids) == [kind |-> "list", val |-> ids]

\* the smallest identity not in use
Fresh(h) == CHOOSE id \in 1 .. Cardinality(DOMAIN h) + 1 :
                id \notin DOMAIN h /\ \A x \in 1 .. id - 1 : x \in DOMAIN h
\* h with obj at id
With(h, id, obj) == [x \in DOMAIN h \cup {id} |-> IF x = id THEN obj ELSE h[x]]
\* a new object: the heap with it, and its identity
Alloc(h, obj) == [h |-> With(h, Fresh(h), obj), id |-> Fresh(h)]

\* the identities reachable from roots: the roots and the elements of lists
Reach(h, roots) ==
    roots \cup UNION {Range(h[id].val) : id \in {x \in roots : h[x].kind = "list"}}

\* what can be read through an identity: a dict's items, a list's dicts
Deep(h, id) ==
    IF h[id].kind = "list" THEN [j \in DOMAIN h[id].val |-> h[h[id].val[j]].val]
    ELSE h[id].val
\* what the engine holds: its state, its initial state and its history
EngineView(h, o) ==
    [state |-> Deep(h, o.state), initial |-> Deep(h, o.initial), past |-> Deep(h, o.past)]

\* a state accessor that returns self._state itself
state_alias(h, o) == [h |-> h, id |-> o.state]

\* the state accessor: self._state.copy()
state_copy(h, o) == Alloc(h, h[o.state])

\* the initial_state accessor: self._initial_state.copy()
initial_state_copy(h, o) == Alloc(h, h[o.initial])

RECURSIVE CopyAll(_, _)
\* [s.copy() for s in ids]: the heap with the copies, and their identities
CopyAll(h, ids) ==
    IF ids = <<>> THEN [h |-> h, ids |-> <<>>]
    ELSE LET a == Alloc(h, h[Head(ids)])
             rest == CopyAll(a.h, Tail(ids))
         IN  [h |-> rest.h, ids |-> <<a.id>> \o rest.ids]

\* get_past_states(n): a new list of copies of the snapshots and self.state
past_states_copy(h, o, mem, has_n, n) ==
    LET s == state_copy(h, o)
        picked == get_past_states(h[o.past].val, s.id, mem, has_n, n)
        c == CopyAll(s.h, SubSeq(picked, 1, Len(picked) - 1))
    IN  Alloc(c.h, List(c.ids \o <<s.id>>))

\* set_state(st): self._state = {v: state[v] for v in self._variables}
set_state_new(h, o, v) ==
    LET a == Alloc(h, Dict(v)) IN [h |-> a.h, o |-> [o EXCEPT !.state = a.id]]

\* reset(): self._past_states = []; self.set_state(self._initial_state)
reset_new(h, o) ==
    LET l == Alloc(h, List(<<>>))
    IN  set_state_new(l.h, [o EXCEPT !.past = l.id], h[o.initial].val)

\* _add_past_state(): self._past_states.append(self.state), pop(0) when full
add_past_state_ref(h, o, mem) ==
    IF mem # 0
    THEN LET s == state_copy(h, o)
         IN  [s.h EXCEPT ![o.past] = List(add_past_state(h[o.past].val, s.id, mem))]
    ELSE h

\* _flip_bit(1): self._state[1] *= -1, in place
flip_bit_ref(h, o) == [h EXCEPT ![o.state] = Dict(flip_bit(h[o.state].val, 1))]

ROp(op, arg) == [op |-> op, arg |-> arg]

\* SpinSimulation({(1,): 1}, {1: v}, AliasMemory)
InitAlias ==
    /\ SimIdle
    /\ MatrixIdle
    /\ PeerIdle
    /\ ProblemIdle
    /\ \E v \in {-1, 1} :
          heap = (1 :> Dict((1 :> v))) @@ (2 :> Dict((1 :> v))) @@ (3 :> List(<<>>))
    /\ own = [state |-> 1, initial |-> 2, past |-> 3]
    /\ held = {}
    /\ rlast = ROp("__init__", 0)

RECURSIVE Dedup(_)
\* the sequence without the later occurrences of its elements
Dedup(seq) ==
    IF seq = <<>> THEN <<>>
    ELSE LET front == Dedup(SubSeq(seq, 1, Len(seq) - 1))
         IN  IF seq[Len(seq)] \in Range(front) THEN front ELSE Append(front, seq[Len(seq)])

\* the objects in use, in the order they are met from the engine and then
\* from the caller (who holds one object at most)
InUse(h, o, hd) ==
    LET mine == IF hd = {} THEN <<>>
                ELSE LET x == CHOOSE y \in hd : TRUE
                     IN  <<x>> \o (IF h[x].kind = "list" THEN h[x].val ELSE <<>>)
    IN  Dedup(<<o.state, o.initial, o.past>> \o h[o.past].val \o mine)
\* the place of id in the sequence order
Place(order, id) == CHOOSE p \in DOMAIN order : order[p] = id

\* the step leaves heap h, engine references o and caller references hd;
\* the objects nobody refers to are gone, and the others are numbered in the
\* order of InUse, the number of an identity being of no consequence
Step(h, o, hd, r) ==
    LET order == InUse(h, o, hd)
        New(obj) == IF obj.kind = "list"
                    THEN List([j \in DOMAIN obj.val |-> Place(order, obj.val[j])])
                    ELSE obj
    IN  /\ heap' = [p \in DOMAIN order |-> New(h[order[p]])]
        /\ own' = [state |-> Place(order, o.state), initial |-> Place(order, o.initial),
                   past |-> Place(order, o.past)]
        /\ held' = {Place(order, x) : x \in hd}
        /\ rlast' = r
        /\ UNCHANGED <<sim, matrix, peer, problem>>

\* s = sim.state
AGetState ==
    /\ held = {}
    /\ LET a == state_copy(heap, own) IN Step(a.h, own, {a.id}, ROp("state", 0))

\* s = sim.initial_state
AGetInitial ==
    /\ held = {}
    /\ LET a == initial_state_copy(heap, own) IN Step(a.h, own, {a.id}, ROp("initial_state", 0))

\* l = sim.get_past_states(n), or sim.get_past_states() for has_n = FALSE
AGetPast(has_n, n) ==
    /\ held = {}
    /\ LET a == past_states_copy(heap, own, AliasMemory, has_n, n)
       IN  Step(a.h, own, {a.id}, ROp("get_past_states", IF has_n THEN n ELSE 0))

\* the caller changes a dict it can reach: d[1] *= -1, or d.clear()
AMutateDict(id, clear) ==
    /\ id \in Reach(heap, held)
    /\ heap[id].kind = "dict"
    /\ heap[id].val # <<>>
    /\ Step([heap EXCEPT ![id] = Dict(IF clear THEN <<>> ELSE flip_bit(heap[id].val, 1))],
            own, held, ROp("mutate_dict", 0))

\* the caller changes a list it holds: l.pop()
AMutateList(id) ==
    /\ id \in held
    /\ heap[id].kind = "list"
    /\ heap[id].val # <<>>
    /\ Step([heap EXCEPT ![id] = List(SubSeq(heap[id].val, 1, Len(heap[id].val) - 1))],
            own, held, ROp("mutate_list", 0))

\* the caller lets go of what it holds
ADrop ==
    /\ held # {}
    /\ Step(heap, own, {}, ROp("drop", 0))

\* sim.set_state({1: v})
ASetState(v) ==
    LET a == set_state_new(heap, own, (1 :> v)) IN Step(a.h, a.o, held, ROp("set_state", v))

\* sim.reset()
AReset ==
    LET a == reset_new(heap, own) IN Step(a.h, a.o, held, ROp("reset", 0))

\* sim.update(T): the snapshot, then the one candidate flipped or not as
\* the test of update decides
ASweep(flip) ==
    LET h1 == add_past_state_ref(heap, own, AliasMemory)
        h2 == IF flip THEN flip_bit_ref(h1, own) ELSE h1
    IN  Step(h2, own, held, ROp("update", IF flip THEN 1 ELSE 0))

NextAlias ==
    \/ AGetState
    \/ AGetInitial
    \/ \E n \in 1 .. AliasMemory + 1 : AGetPast(TRUE, n)
    \/ AGetPast(FALSE, 0)
    \/ \E id \in DOMAIN heap, clear \in BOOLEAN : AMutateDict(id, clear)
    \/ \E id \in DOMAIN heap : AMutateList(id)
    \/ ADrop
    \/ \E v \in {-1, 1} : ASetState(v)
    \/ AReset
    \/ \E flip \in BOOLEAN : ASweep(flip)

SpecAlias == InitAlias /\ [][NextAlias]_vars

\* ------------------------------------------- two simulations, one source
\* A second SpinSimulation of the same model and memory lives in the process.
\* `random` is a module: both objects draw from, and seed, the one source
\* whose position is rng.  A call on either object runs to its end before the
\* next call starts.  twin is this simulation in a process of its own, given
\* the calls made on this one and none of those made on the other.
SharedModels == {ModelSingle}
SharedCounts == {0, 1}
\* draws after a seed within which calls are made
SharedLen == 7
PeerCounts == {0, 1}

InitShared ==
    \E m \in SharedModels, r \in StartPositions, rB \in {SeedState(2)} :
        LET vs == CtorVariables(m, NoInitial)
            st == SetStateResult(Range(vs), <<>>, CtorInitialState(m, NoInitial)).state
        IN  /\ ConstructOK(m, NoInitial)
            /\ BuildSim(FALSE, <<>>, m, vs, CtorInitialState(m, NoInitial), FALSE, st, 0, 0, r,
                        [on |-> TRUE, track |-> TRUE, first |-> "none",
                         e |-> Engine(st, <<>>, rB, vs)])
            /\ MatrixIdle
            /\ RefsIdle
            /\ peer = [state |-> st, past |-> <<>>, after |-> FALSE]
            /\ ProblemIdle

\* the name under which last records a call on the other simulation
PeerCall(seed) == IF seed = NoSeed THEN "peer.update" ELSE "peer.update(seed)"

\* update(T, n, seed) on the other simulation, drawing from a source of its own
PeerUpdateOwnSource(T, n, seed) ==
    /\ pc = "idle"
    /\ n >= 0
    /\ LET b == RunUpdate(Engine(peer.state, peer.past, rng, variables), T, n, seed)
       IN  peer' = [state |-> b.state, past |-> b.past,
                    after |-> peer.after \/ twin.first = "seeded"]
    /\ rng' = rng
    /\ last' = Outcome(PeerCall(seed), n, "none")
    /\ UNCHANGED <<matrix, refs, problem, config, control, state, past_states, log, twin, call>>

\* update(T, n, seed) on the other simulation: it seeds and draws from the
\* source this simulation draws from
PeerUpdate(T, n, seed) ==
    /\ pc = "idle"
    /\ n >= 0
    /\ LET b == RunUpdate(Engine(peer.state, peer.past, rng, variables), T, n, seed)
       IN  /\ peer' = [state |-> b.state, past |-> b.past,
                       after |-> peer.after \/ twin.first = "seeded"]
           /\ rng' = b.rng
    /\ last' = Outcome(PeerCall(seed), n, "none")
    /\ UNCHANGED <<matrix, refs, problem, config, control, state, past_states, log, twin, call>>

NextShared ==
    \/ /\ twin.first # "unseeded"
       /\ \E T \in Temps, n \in SharedCounts, seed \in SeedArgs :
             /\ Within(Seeded(rng, seed), n, SharedLen)
             /\ Within(Seeded(twin.e.rng, seed), n, SharedLen)
             /\ Update(T, n, seed)
    \/ \E T \in Temps, n \in PeerCounts, seed \in SeedArgs :
          Within(Seeded(rng, seed), n, SharedLen) /\ PeerUpdate(T, n, seed)
    \/ SweepBegin
    \/ Candidate

SpecShared == InitShared /\ [][NextShared]_vars

\* ---------------------------------------------------------------------
\* VertexCover and GraphPartitioning

\* the graphs: sets of edges (u, v) over the vertices 0 .. 3, among them the
\* graphs of the docstrings, the empty graph, a self-loop, and an edge given
\* in both directions
EdgeSets == {{},
             {<<0, 1>>},
             {<<0, 0>>},
             {<<0, 1>>, <<1, 0>>},
             {<<0, 1>>, <<0, 2>>},
             {<<0, 0>>, <<0, 1>>},
             {<<0, 1>>, <<1, 2>>, <<0, 2>>},
             {<<0, 1>>, <<1, 2>>, <<0, 3>>}}
ProblemClasses == {"VertexCover", "GraphPartitioning"}
\* the argument A left out, and the values given for A and B
NoA == -1
AArgs == {NoA, 1, 2, 3}
BArgs == {1, 2, 8}

\* {y for x in edges for y in x}
Vertices(edges) == {e[1] : e \in edges} \cup {e[2] : e \in edges}
\* {x: i for i, x in enumerate(self._vertices)}, for every order in which a
\* set may be iterated
Enumerations(vs) ==
    {f \in [vs -> 0 .. Cardinality(vs) - 1] : \A a, b \in vs : f[a] = f[b] => a = b}
\* all_degs[q]: the number of times q is an end of an edge
Degree(edges, q) ==
    Cardinality({e \in edges : e[1] = q}) + Cardinality({e \in edges : e[2] = q})
\* max(all_degs.values()) if all_degs else 0
MaxDegree(edges) ==
    IF edges = {} THEN 0
    ELSE CHOOSE m \in {Degree(edges, q) : q \in Vertices(edges)} :
             \A q \in Vertices(edges) : Degree(edges, q) <= m

\* VertexCover.__init__(edges)
VertexCover_init(edges, index) ==
    [obj |-> [cls |-> "VertexCover", edges |-> edges, vertex_to_index |-> index,
              N |-> Cardinality(Vertices(edges)), n |-> Cardinality(edges)],
     raised |-> "none"]

\* a GraphPartitioning.__init__ that takes any graph
GraphPartitioning_init_any(edges, index) ==
    [obj |-> [cls |-> "GraphPartitioning", edges |-> edges, vertex_to_index |-> index,
              N |-> Cardinality(Vertices(edges)), n |-> Cardinality(edges),
              degree |-> MaxDegree(edges)],
     raised |-> "none"]

\* GraphPartitioning.__init__(edges)
GraphPartitioning_init(edges, index) ==
    IF Cardinality(Vertices(edges)) % 2 # 0 THEN [obj |-> NoProblem, raised |-> "ValueError"]
    ELSE [obj |-> [cls |-> "GraphPartitioning", edges |-> edges, vertex_to_index |-> index,
                   N |-> Cardinality(Vertices(edges)), n |-> Cardinality(edges),
                   degree |-> MaxDegree(edges)],
          raised |-> "none"]

RECURSIVE InOrder(_)
\* the elements of a set, in an order of iteration
InOrder(S) ==
    IF S = {} THEN <<>>
    ELSE LET x == CHOOSE y \in S : TRUE IN <<x>> \o InOrder(S \ {x})

\* for i in range(self._N): Q[(i, i)] += B
encode_H_B(N, B) == [i \in 1 .. N |-> E(KT(i - 1, i - 1), B)]

\* a to_qubo that adds A to the pair of every edge and nothing else
encode_H_A_pairs(es, index, A) ==
    [j \in 1 .. Len(es) |-> E(KT(index[es[j][1]], index[es[j][2]]), A)]

RECURSIVE encode_H_A(_, _, _)
\* for u, v in self._edges: Q[(iu, iv)] += A; Q[(iu, iu)] -= A; Q[(iv, iv)] -= A
encode_H_A(es, index, A) ==
    IF es = <<>> THEN <<>>
    ELSE LET iu == index[Head(es)[1]]
             iv == index[Head(es)[2]]
         IN  <<E(KT(iu, iv), A), E(KT(iu, iu), -A), E(KT(iv, iv), -A)>>
                 \o encode_H_A(Tail(es), index, A)

\* VertexCover.to_qubo(A, B): the statements Q[key] += v, made in order on an
\* empty QUBOMatrix
to_qubo(g, A, B) ==
    LET r == accumulate("QUBOMatrix", <<>>,
                        encode_H_B(g.N, B) \o encode_H_A(InOrder(g.edges), g.vertex_to_index, A), 1)
    IN  [Q |-> r.d, offset |-> g.n * A, raised |-> r.raised]

\* the pairs (i, j), i < j < N, in the order of the two loops
RECURSIVE PairsFrom(_, _, _)
PairsFrom(i, j, N) ==
    IF i >= N THEN <<>>
    ELSE IF j >= N THEN PairsFrom(i + 1, i + 2, N)
    ELSE <<KT(i, j)>> \o PairsFrom(i, j + 1, N)

\* the edges of to_ising with B / 2 added to the coupling instead of subtracted
encode_cut_added(es, index, B) ==
    [j \in 1 .. Len(es) |-> E(KT(index[es[j][1]], index[es[j][2]]), ExactDiv(B, 2))]

\* for u, v in self._edges: J[(iu, iv)] -= B / 2
encode_cut(es, index, B) ==
    [j \in 1 .. Len(es) |-> E(KT(index[es[j][1]], index[es[j][2]]), -ExactDiv(B, 2))]

\* A = min(2*self._degree, self._N) * B / 8
DefaultA(g, B) == ExactDiv(Min(2 * g.degree, g.N) * B, 8)

\* GraphPartitioning.to_ising(A, B), for A and B that keep every coefficient
\* an integer
to_ising(g, A0, B) ==
    LET A == IF A0 = NoA THEN DefaultA(g, B) ELSE A0
        pairs == PairsFrom(0, 1, g.N)
        r == accumulate("IsingCoupling", <<>>,
                        [j \in 1 .. Len(pairs) |-> E(pairs[j], 2 * A)]
                            \o encode_cut(InOrder(g.edges), g.vertex_to_index, B), 1)
    IN  [h |-> <<>>, J |-> r.d, offset |-> A * g.N + ExactDiv(B * g.n, 2), raised |-> r.raised]

\* dict(enumerate(solution)) of a list
Enumerate(solution) == [i \in 0 .. Len(solution) - 1 |-> solution[i + 1]]
\* self._index_to_vertex[i]
index_to_vertex(g, i) == CHOOSE x \in DOMAIN g.vertex_to_index : g.vertex_to_index[x] = i
\* a solution: a list or a dict of values by index, or what convert_solution
\* returns
Sol(form, v) == [form |-> form, v |-> v]
AsDict(sol) == IF sol.form = "list" THEN Enumerate(sol.v) ELSE sol.v
\* an index of the solution is no index of a vertex
Unknown_index(g, d) == \E i \in DOMAIN d : i \notin 0 .. g.N - 1

\* VertexCover.convert_solution(solution)
VertexCover_convert_solution(g, sol) ==
    LET d == AsDict(sol)
    IN  IF \E i \in DOMAIN d : d[i] = 1 /\ i \notin 0 .. g.N - 1
        THEN [result |-> {}, raised |-> "KeyError"]
        ELSE [result |-> {index_to_vertex(g, i) : i \in {j \in DOMAIN d : d[j] = 1}},
              raised |-> "none"]

\* VertexCover.is_solution_valid(solution)
VertexCover_is_solution_valid(g, sol) ==
    LET c == IF sol.form = "set" THEN [result |-> sol.v, raised |-> "none"]
             ELSE VertexCover_convert_solution(g, sol)
    IN  IF c.raised # "none" THEN [result |-> FALSE, raised |-> c.raised]
        ELSE [result |-> \A e \in g.edges : e[1] \in c.result \/ e[2] \in c.result,
              raised |-> "none"]

\* GraphPartitioning.convert_solution(solution)
GraphPartitioning_convert_solution(g, sol) ==
    LET d == AsDict(sol)
    IN  IF Unknown_index(g, d) THEN [result |-> <<{}, {}>>, raised |-> "KeyError"]
        ELSE [result |-> <<{index_to_vertex(g, i) : i \in {j \in DOMAIN d : d[j] = 1}},
                           {index_to_vertex(g, i) : i \in {j \in DOMAIN d : d[j] # 1}}>>,
              raised |-> "none"]

\* GraphPartitioning.is_solution_valid(solution)
GraphPartitioning_is_solution_valid(g, sol) ==
    LET c == IF sol.form = "pair" THEN [result |-> sol.v, raised |-> "none"]
             ELSE GraphPartitioning_convert_solution(g, sol)
    IN  IF c.raised # "none" THEN [result |-> FALSE, raised |-> c.raised]
        ELSE [result |-> Cardinality(c.result[1]) = Cardinality(c.result[2]),
              raised |-> "none"]

\* the record of a call
GOp(op, arg, raised, result) == [op |-> op, arg |-> arg, raised |-> raised, result |-> result]

\* cls(edges): the object constructed, or the error and no object
InitProblem ==
    /\ SimIdle
    /\ MatrixIdle
    /\ RefsIdle
    /\ PeerIdle
    /\ \E cls \in ProblemClasses, edges \in EdgeSets :
          \E index \in Enumerations(Vertices(edges)) :
              LET r == IF cls = "VertexCover" THEN VertexCover_init(edges, index)
                       ELSE GraphPartitioning_init(edges, index)
              IN  /\ graph = r.obj
                  /\ glast = GOp("__init__", [cls |-> cls, edges |-> edges], r.raised, 0)

\* the solutions handed in: the lists of QUBO values and of Ising values for
\* every index, the lists of QUBO values for all indices but the last, and a
\* list with one value too many
ValueSets == {{0, 1}, {-1, 1}}
Solutions(g) ==
    IF g.cls \notin ProblemClasses THEN {}
    ELSE {Sol("list", s) :
             s \in (UNION {[1 .. g.N -> vals] : vals \in ValueSets})
                      \cup (IF g.N = 0 THEN {} ELSE [1 .. g.N - 1 -> {0, 1}])
                      \cup {[j \in 1 .. g.N + 1 |-> 1]}}
\* what convert_solution returns: a set of vertices of a VertexCover, a pair
\* of disjoint sets of vertices of a GraphPartitioning
Converted(g) ==
    CASE g.cls = "VertexCover" -> {Sol("set", c) : c \in SUBSET Vertices(g.edges)}
      [] g.cls = "GraphPartitioning" ->
            UNION {{Sol("pair", <<p, q>>) : q \in SUBSET (Vertices(g.edges) \ p)} :
                      p \in SUBSET Vertices(g.edges)}
      [] OTHER -> {}

\* problem.to_qubo(A, B) on a VertexCover
ToQubo(A, B) ==
    /\ graph.cls = "VertexCover"
    /\ LET r == to_qubo(graph, A, B)
       IN  glast' = GOp("to_qubo", <<A, B>>, r.raised, [Q |-> r.Q, offset |-> r.offset])
    /\ UNCHANGED <<sim, matrix, refs, peer, graph>>

\* problem.to_ising(A, B) on a GraphPartitioning, for A and B that keep every
\* coefficient an integer
ToIsing(A, B) ==
    /\ graph.cls = "GraphPartitioning"
    /\ B % 2 = 0
    /\ A = NoA => (Min(2 * graph.degree, graph.N) * B) % 8 = 0
    /\ LET r == to_ising(graph, A, B)
       IN  glast' = GOp("to_ising", <<A, B>>, r.raised,
                        IF r.raised = "none" THEN [h |-> r.h, J |-> r.J, offset |-> r.offset]
                        ELSE 0)
    /\ UNCHANGED <<sim, matrix, refs, peer, graph>>

\* problem.convert_solution(solution)
ConvertSolution(sol) ==
    /\ graph.cls \in ProblemClasses
    /\ sol.form = "list"
    /\ LET r == IF graph.cls = "VertexCover" THEN VertexCover_convert_solution(graph, sol)
                ELSE GraphPartitioning_convert_solution(graph, sol)
       IN  glast' = GOp("convert_solution", sol, r.raised, r.result)
    /\ UNCHANGED <<sim, matrix, refs, peer, graph>>

\* problem.is_solution_valid(solution)
IsSolutionValid(sol) ==
    /\ graph.cls \in ProblemClasses
    /\ LET r == IF graph.cls = "VertexCover" THEN VertexCover_is_solution_valid(graph, sol)
                ELSE GraphPartitioning_is_solution_valid(graph, sol)
       IN  glast' = GOp("is_solution_valid", sol, r.raised, r.result)
    /\ UNCHANGED <<sim, matrix, refs, peer, graph>>

NextProblem ==
    \/ \E A \in AArgs \ {NoA}, B \in BArgs : ToQubo(A, B)
    \/ \E A \in AArgs, B \in BArgs : ToIsing(A, B)
    \/ \E sol \in Solutions(graph) : ConvertSolution(sol)
    \/ \E sol \in Solutions(graph) : IsSolutionValid(sol)
    \/ \E sol \in Converted(graph) : IsSolutionValid(sol)

SpecProblem == InitProblem /\ [][NextProblem]_vars

\* ---------------------------------------------------------------- claims
\* the labels of every term of m are pairwise distinct
DistinctLabels(m) ==
    \A k \in DOMAIN m : \A a, b \in DOMAIN k : a # b => k[a] # k[b]

\* C1: for a model whose terms have pairwise-distinct labels, in every state
\* and for every variable i, the delta update computes for i equals the full
\* energy of the state with i flipped minus the full energy of the state.
C1_DeltaIsEnergyChange ==
    DistinctLabels(model) =>
        \A i \in Range(variables) :
            dE(state, subgraphs, i) = Energy(flip_bit(state, i)) - Energy(state)

\* a sweep over a two-term model with a three-label term has evaluated a
\* candidate, some spin is down, and the next candidate's delta is uphill
C1_Witness ==
    /\ DistinctLabels(model)
    /\ <<1, 2, 3>> \in DOMAIN model
    /\ Cardinality(DOMAIN model) = 2
    /\ pc = "sweep"
    /\ Len(draws) < Len(variables)
    /\ \E v \in Range(variables) : state[v] = -1
    /\ dE(state, subgraphs, Head(draws)) > 0

\* the same equation without the precondition (fails on a repeated label)
DeltaIsEnergyChangeAnyModel ==
    \A i \in Range(variables) :
        dE(state, subgraphs, i) = Energy(flip_bit(state, i)) - Energy(state)

\* C2: at temperature 0 a candidate is flipped if and only if its delta is
\* <= 0, and the full energy of the current state never increases from one
\* candidate evaluation to the next, whatever label is drawn.
C2_GreedyAtZero ==
    [][(pc = "sweep" /\ cur_T = 0) =>
          LET i == Head(draws)
              d == dE(state, subgraphs, i)
          IN  /\ state' = IF d <= 0 THEN flip_bit(state, i) ELSE state
              /\ Energy(state') <= Energy(state)]_vars

\* a sweep at temperature 0 has flipped a spin since its snapshot and its
\* next candidate is uphill, so it will be rejected
C2_Witness ==
    /\ pc = "sweep"
    /\ cur_T = 0
    /\ memory >= 1
    /\ past_states[Len(past_states)] # state
    /\ \A v \in Range(variables) : state[v] \in Spins
    /\ dE(state, subgraphs, Head(draws)) > 0

\* C3: in every reachable state, whether the calls made returned or raised,
\* the current state has exactly one entry for each engine variable, the
\* engine variables contain every label of every model term, and every value
\* is -1 or +1.
C3_StateTotalBipolar ==
    /\ ModelLabels(model) \subseteq Range(variables)
    /\ DOMAIN state = Range(variables)
    /\ \A v \in Range(variables) : state[v] \in {-1, 1}

\* the last m entries of a sequence, oldest first
LastN(seq, m) == [j \in 1 .. m |-> seq[Len(seq) - m + j]]

\* C4: the history never holds more than memory snapshots; a sweep that
\* begins with memory snapshots held evicts the oldest, and the others keep
\* their relative order.
C4_HistoryBounded ==
    /\ [](Len(past_states) <= memory)
    /\ [][(pc = "update" /\ memory >= 1 /\ Len(past_states) = memory) =>
             /\ Len(past_states') = memory
             /\ \A j \in 1 .. memory - 1 : past_states'[j] = past_states[j + 1]]_vars

\* memory is 2, a third sweep has begun, its snapshot evicted the first
\* sweep's, and the snapshots involved differ
C4_Witness ==
    /\ memory = 2
    /\ Len(log) = 3
    /\ past_states = <<log[2], log[3]>>
    /\ log[1] # log[2]
    /\ log[2] # log[3]

\* C5: with memory M >= 1, after k sweeps since construction or the last
\* reset the history is exactly the pre-sweep states of the last min(k, M)
\* sweeps, oldest first, so its newest entry is the state the most recent
\* sweep started from.
C5_HistoryIsLastSweeps ==
    memory >= 1 =>
        /\ past_states = LastN(log, Min(Len(log), memory))
        /\ log # <<>> => past_states[Len(past_states)] = log[Len(log)]

\* three sweeps have run with memory 2 from three different states and the
\* current state is not the last snapshot
C5_Witness ==
    /\ memory = 2
    /\ pc = "idle"
    /\ Len(log) = 3
    /\ log[1] # log[2]
    /\ log[1] # log[3]
    /\ log[2] # log[3]
    /\ state # log[3]

\* C6: get_past_states() returns the min(memory, available) most recent
\* snapshots followed by the current state, oldest first, memory + 1 states
\* once memory sweeps have run.
C6_AllPastStates ==
    get_past_states(past_states, state, memory, FALSE, 0)
        = LastN(past_states, Min(memory, Len(past_states))) \o <<state>>

\* largest num_states asked of get_past_states
MaxNum == MaxMemory + 2

\* C7: get_past_states(1) is the current state alone and, for n >= 2,
\* get_past_states(n) is the most recent min(n - 1, available) snapshots
\* followed by the current state, oldest first.
C7_PastStatesN ==
    \A n \in 1 .. MaxNum :
        get_past_states(past_states, state, memory, TRUE, n)
            = IF n = 1 THEN <<state>>
              ELSE LastN(past_states, Min(n - 1, Len(past_states))) \o <<state>>

\* two different snapshots are held and the current state differs from the
\* newest, so get_past_states(2) must drop exactly the older one
C7_Witness ==
    /\ Len(past_states) = 2
    /\ past_states[1] # past_states[2]
    /\ past_states[2] # state
    /\ pc = "idle"

\* C8: with memory 0, get_past_states() is the current state alone.
C8_NoMemory ==
    memory = 0 =>
        get_past_states(past_states, state, memory, FALSE, 0) = <<state>>

\* a two-sweep update has returned on an engine with memory 0 and moved the
\* state away from the constructed one
C8_Witness ==
    /\ memory = 0
    /\ last = Outcome("update", 2, "none")
    /\ state # ctor.state

\* C9: reset() raises nothing, makes the state the initial assignment and
\* empties the history, so that state and get_past_states() are what they
\* were right after construction; a second reset() changes neither.
C9_ResetRestores ==
    /\ [](last.op = "reset" =>
            /\ last.raised = "none"
            /\ state = [v \in Range(variables) |-> initial_state[v]]
            /\ state = ctor.state
            /\ past_states = <<>>
            /\ get_past_states(past_states, state, memory, FALSE, 0) = ctor.past)
    /\ [][(last.op = "reset" /\ last'.op = "reset") =>
             (state' = state /\ past_states' = past_states /\ last'.arg = 0)]_vars

\* a reset has just undone a change of the state or of the history on an
\* engine that keeps history
C9_Witness ==
    /\ last = Outcome("reset", 1, "none")
    /\ memory >= 1

\* C10: update with a negative sweep count raises and leaves the state and
\* the history as they were, whether called directly or for a schedule phase.
C10_NegativeUpdate ==
    /\ [](last.op = "update" /\ last.arg < 0 =>
            last.raised = "ValueError" /\ pc = "idle")
    /\ [][(pc = "idle" /\ last'.op = "update" /\ last'.arg < 0) =>
             UNCHANGED <<state, past_states>>]_vars
    /\ [][(pc = "schedule" /\ Head(phases).n < 0) =>
             (last'.raised = "ValueError" /\ pc' = "idle"
                 /\ UNCHANGED <<state, past_states>>)]_vars

\* update(T, -1) has just raised on an engine whose state and history earlier
\* sweeps had changed
C10_Witness ==
    /\ last = Outcome("update", -1, "ValueError")
    /\ past_states # <<>>
    /\ state # ctor.state

\* C11: update or schedule_update given a negative temperature fails with an
\* error and performs no flip and no history append.  Every call of SpecNegT
\* carries negative temperatures only: none of them may return normally, and
\* no step after such a call may change the state or the history.
C11_NegativeTemperature ==
    /\ [](last.op \in {"update", "schedule_update"} => last.raised # "none")
    /\ [][last'.op \in {"update", "schedule_update"} =>
             UNCHANGED <<state, past_states>>]_vars

\* C12: when schedule_update(phases, seed) has returned, the current state,
\* the history and the position of the random source are what seeding once
\* with seed and then, for each phase (T, n) in order, n single-sweep calls
\* update(T) without a seed make of the engine the call started from.
C12_ScheduleIsSingleUpdates ==
    (pc = "idle" /\ twin.on /\ last.op = "schedule_update" /\ last.raised = "none")
        => Here = call.ref

\* a seeded schedule_update of a two-sweep phase followed by a one-sweep
\* phase has returned on a simulation of two variables, having changed the
\* state and the history and taken the draws of three sweeps
C12_Witness ==
    /\ pc = "idle"
    /\ twin.on
    /\ last = Outcome("schedule_update", 1, "none")
    /\ Here = call.ref
    /\ Len(variables) = 2
    /\ state # call.before.state
    /\ past_states # call.before.past
    /\ rng % Stride >= 3 * Len(variables)

\* C13: a schedule_update call either applies all of its phases or fails
\* before mutating anything: when it has raised, the current state and the
\* history are the same as before the call.
C13_ScheduleAllOrNothing ==
    (pc = "idle" /\ twin.on /\ last.op = "schedule_update"
        /\ last.raised = "ValueError")
        => (state = call.before.state /\ past_states = call.before.past)

\* C14: two simulations constructed with the same model, initial state and
\* memory and driven by the same sequence of calls with the same seeds at the
\* same call points have identical current states and identical histories
\* after every call.
C14_SameCallsSameResult ==
    (pc = "idle" /\ twin.on) =>
        (twin.e.state = state /\ twin.e.past = past_states)

\* C14, amended: they have, after every call, provided the first update or
\* schedule_update call of the sequence carries a seed and the two simulations
\* list their variables in the same order.
C14_SeededFirstSameResult ==
    (pc = "idle" /\ twin.on /\ twin.first = "seeded" /\ twin.e.vs = variables) =>
        (twin.e.state = state /\ twin.e.past = past_states /\ twin.e.rng = rng)

\* an update has returned after sweeps that changed state and history and
\* left the random source off the seeded positions, in a sequence of calls
\* whose first update call was seeded, on two simulations constructed with
\* initial_state {2: 1, 1: 1}
C14_Witness ==
    /\ pc = "idle"
    /\ twin.on
    /\ twin.first = "seeded"
    /\ variables = <<2, 1>>
    /\ twin.e.vs = variables
    /\ last.op = "update" /\ last.arg >= 1 /\ last.raised = "none"
    /\ call.ref.rng # SeedState(0) /\ call.ref.rng # SeedState(3)
    /\ state # call.before.state
    /\ past_states # call.before.past

\* C15: SpinSimulation.set_state given a value that is neither -1 nor +1
\* raises an error and leaves the current state as it was before the call.
C15_SetStateRejects ==
    [][(pc = "idle" /\ ~boolean /\ last'.op = "set_state" /\ last'.arg = 1) =>
          (last'.raised # "none" /\ state' = state)]_vars

\* C16: BooleanSimulation.set_state given a value that is neither 0 nor 1
\* raises an error and leaves the internal bipolar state as it was before
\* the call.
C16_BoolSetStateRejects ==
    [][(pc = "idle" /\ boolean /\ last'.op = "set_state" /\ last'.arg = 1) =>
          (last'.raised # "none" /\ state' = state)]_vars

\* set_state has just raised ValueError over a value outside {0, 1} on a
\* Boolean simulation whose state earlier calls had moved off the initial one
C16_Witness ==
    /\ boolean
    /\ last = Outcome("set_state", 1, "ValueError")
    /\ state # boolean_to_spin([v \in Range(variables) |-> initial_state[v]])

\* the Boolean assignments of the variables
BoolAssignments == [Range(variables) -> {0, 1}]

\* C17: for a BooleanSimulation the internal state is always bipolar, and
\* every state handed out (the state accessor, every element of
\* get_past_states, history snapshots included) is the Boolean image
\* b = (1 - s) / 2 of a bipolar state, with values in {0, 1}; set_state(b)
\* followed by reading state returns b restricted to the engine's variables.
C17_BooleanViews ==
    /\ [](boolean =>
            /\ state \in [Range(variables) -> Spins]
            /\ StateView(boolean, state) \in BoolAssignments
            /\ \A v \in Range(variables) : 2 * StateView(boolean, state)[v] = 1 - state[v]
            /\ \A j \in DOMAIN past_states : past_states[j] \in BoolAssignments
            /\ \A n \in 0 .. MaxNum :
                  \A b \in Range(get_past_states(past_states, StateView(boolean, state),
                                                 memory, n > 0, n)) :
                      b \in BoolAssignments)
    /\ [][\A arg \in BoolStateArgs :
             (boolean /\ SetState(arg) /\ last'.raised = "none") =>
                 StateView(boolean, state') = [v \in Range(variables) |-> arg[v]]]_vars

\* a Boolean simulation with a snapshot in its history has just been given,
\* by set_state, a state that differs from the snapshot and is not all 0
C17_Witness ==
    /\ boolean
    /\ last = Outcome("set_state", 0, "none")
    /\ past_states # <<>>
    /\ StateView(boolean, state) # past_states[1]
    /\ \E v \in Range(variables) : StateView(boolean, state)[v] = 1
    /\ \E v \in Range(variables) : StateView(boolean, state)[v] = 0

\* C18: a BooleanSimulation constructed without an initial state starts with
\* every variable at Boolean 0, which is internal spin +1, the internal state
\* a SpinSimulation constructed over the bipolar model without an initial
\* state starts in.
C18_BooleanDefault ==
    (boolean /\ ~ctor.given /\ last.op = "__init__") =>
        /\ StateView(boolean, state) = [v \in Range(variables) |-> 0]
        /\ state = [v \in Range(variables) |-> 1]
        /\ ConstructOK(model, NoInitial)
        /\ variables = CtorVariables(model, NoInitial)
        /\ state = SetStateResult(Range(CtorVariables(model, NoInitial)), <<>>,
                                  CtorInitialState(model, NoInitial)).state

\* a Boolean simulation over two variables right after a construction that
\* was given no initial state
C18_Witness ==
    /\ boolean
    /\ ~ctor.given
    /\ last.op = "__init__"
    /\ Len(variables) = 2

\* the Boolean assignment b with variable i toggled
Toggle(b, i) == [b EXCEPT ![i] = 1 - @]

\* C19: the bipolar model built at construction is equivalent to the Boolean
\* model: for every Boolean assignment b the bipolar energy at s = 1 - 2b is
\* the Boolean energy at b, and so the delta computed for a candidate flip is
\* the change of the Boolean energy when that variable is toggled (both sides
\* in units of 1 / Scale(pubo), the scale the bipolar model is held in).
C19_BipolarModelEquivalent ==
    boolean =>
        /\ \A b \in BoolAssignments :
              /\ Energy(boolean_to_spin(b)) = Scale(pubo) * pubo_value(b, pubo)
              /\ \A i \in Range(variables) :
                    dE(boolean_to_spin(b), subgraphs, i) =
                        Scale(pubo) * (pubo_value(Toggle(b, i), pubo) - pubo_value(b, pubo))
        /\ \A i \in Range(variables) :
              dE(state, subgraphs, i) =
                  Scale(pubo) * (pubo_value(Toggle(StateView(boolean, state), i), pubo)
                                    - pubo_value(StateView(boolean, state), pubo))

\* a sweep of a Boolean simulation is about to evaluate a candidate whose
\* toggle raises the Boolean energy, over a model whose conversion merges
\* terms and drops one
C19_Witness ==
    /\ boolean
    /\ pc = "sweep"
    /\ dE(state, subgraphs, Head(draws)) > 0
    /\ \E k \in DOMAIN pubo : k \notin DOMAIN model

\* C20: a BooleanSimulation over the single-variable model with one arity-1
\* term of coefficient +1, in Boolean state {v: 1}, ends update(0, n) in
\* {v: 0} for every n >= 1.
C20_SingleVariableDescends ==
    (boolean /\ pubo = BoolSingle /\ pc = "idle"
        /\ last.op = "update" /\ last.arg >= 1 /\ last.raised = "none"
        /\ call.T = 0 /\ call.before.state = (1 :> -1))
        => StateView(boolean, state) = (1 :> 0)

\* update(0, 5) has returned on the single-variable simulation constructed
\* with initial state {v: 1} and not touched before the call
C20_Witness ==
    /\ boolean
    /\ pubo = BoolSingle
    /\ ctor.given /\ ctor.state = (1 :> 1)
    /\ last = Outcome("update", MaxBoolSweeps, "none")
    /\ call.T = 0
    /\ call.before.state = (1 :> -1)
    /\ call.before.past = <<>>
    /\ StateView(boolean, state) = (1 :> 0)

\* flipping any single variable of st strictly increases the energy
StrictLocalMin(st) ==
    \A i \in Range(variables) : Energy(flip_bit(st, i)) > Energy(st)

\* C21: at temperature 0 a state in which flipping any single variable
\* strictly increases the energy is a fixed point of update: no step of a
\* sweep changes it, whatever labels are drawn; and the chain of four
\* variables with couplings of -1, in state all +1 when update(0, 10) is
\* called, is all +1 throughout the call and when it has returned.
C21_FixedPointAtZero ==
    /\ [][(pc \in {"update", "sweep"} /\ cur_T = 0 /\ StrictLocalMin(state))
             => state' = state]_vars
    /\ [](model = ModelChain /\ last.op = "update" /\ last.arg = MaxChainSweeps
             /\ call.T = 0 /\ call.before.state = AllUp
             => state = AllUp)

\* update(0, 10) has returned on the chain it was called on in state all +1
C21_Witness ==
    /\ model = ModelChain
    /\ last = Outcome("update", MaxChainSweeps, "none")
    /\ call.T = 0
    /\ call.before.state = AllUp
    /\ StrictLocalMin(state)
    /\ state = AllUp

\* C23: in a QUBOMatrix, IsingCoupling or IsingField, after construction and
\* after any sequence of item writes, accumulations, update calls and
\* arithmetic operators, no stored term has coefficient zero; no model an
\* operator returns has one either.
C23_NoStoredZero ==
    /\ \A k \in DOMAIN mat : mat[k] # 0
    /\ mlast.op \in {"add", "radd", "sub", "rsub", "mul", "rmul", "truediv", "floordiv"}
       /\ mlast.raised = "none"
       => \A k \in DOMAIN mlast.result : mlast.result[k] # 0

\* a write of 0 removed a stored term, and a sum that came to 0 removed one
C23_Witness ==
    /\ mlast.op = "accumulate"
    /\ mlast.raised = "none"
    /\ mlast.arg = KT(1, 0)
    /\ KT(0, 1) \notin DOMAIN mat
    /\ KT(0, 0) \in DOMAIN mat

\* the labels of the keys written
MatrixLabels == 0 .. 2
\* the key (j, i) for the key (i, j)
Swapped(key) == KT(key.items[2], key.items[1])
\* every key of d is a pair (i, j) with i <= j
KeysSorted(d) ==
    \A k \in DOMAIN d : k.tuple /\ Len(k.items) = 2 /\ k.items[1] <= k.items[2]

\* C24: in a QUBOMatrix or IsingCoupling every stored key (i, j) has i <= j
\* after any sequence of operations, in the object and in every model an
\* operator returns; d[(i, j)] equals d[(j, i)] at all times; and after a write
\* to a key the value read under the other label order is the value written.
C24_SortedSymmetric ==
    mkind \in {"QUBOMatrix", "IsingCoupling"} =>
        /\ KeysSorted(mat)
        /\ mlast.op \in {"add", "radd", "sub", "rsub", "mul", "rmul", "truediv", "floordiv"}
           /\ mlast.raised = "none"
           => KeysSorted(mlast.result)
        /\ \A i, j \in MatrixLabels : getitem(mat, KT(i, j)) = getitem(mat, KT(j, i))
        /\ mlast.op = "getitem" /\ mlast.arg.tuple /\ Len(mlast.arg.items) = 2
           => mlast.result = getitem(mat, Swapped(mlast.arg))
        /\ mlast.op = "setitem" /\ mlast.raised = "none"
           => getitem(mat, Swapped(mlast.arg)) = mlast.val

\* a write to (1, 0) is stored under (0, 1)
C24_Witness ==
    /\ mkind = "IsingCoupling"
    /\ mlast.op = "setitem"
    /\ mlast.arg = KT(1, 0)
    /\ mlast.val = 2
    /\ mlast.raised = "none"
    /\ DOMAIN mat = {KT(0, 1)}
    /\ mat[KT(0, 1)] = 2

\* C25: looking up a term that is not stored returns 0, raises no error, and
\* leaves the model as it was: no entry is added and none is changed.
C25_LookupAddsNothing ==
    [][mlast'.op = "getitem" =>
          /\ mat' = mat
          /\ mlast'.raised = "none"
          /\ SortedKey(mlast'.arg) \notin DOMAIN mat => mlast'.result = 0
          /\ SortedKey(mlast'.arg) \in DOMAIN mat => mlast'.result = mat[SortedKey(mlast'.arg)]]_vars

\* a term that is not stored was looked up in a model that stores another
C25_Witness ==
    /\ mlast.op = "getitem"
    /\ mlast.arg = KT(1, 0)
    /\ mlast.result = 0
    /\ DOMAIN mat = {KT(0, 0)}

\* the key is a pair of equal labels
Diagonal(key) == key.tuple /\ Len(key.items) = 2 /\ key.items[1] = key.items[2]
\* the plain dict g lists a term with two equal labels
HasDiagonal(g) == \E j \in DOMAIN g : Diagonal(g[j].k)
NoDiagonalKey(d) == \A k \in DOMAIN d : ~Diagonal(k)

\* C26: an IsingCoupling rejects every write whose term has two equal labels,
\* by item write, accumulation, construction, update or arithmetic, with any
\* coefficient including zero: the operation raises KeyError and no key (i, i)
\* is ever stored, in the object or in a model an operator returns.  A
\* QUBOMatrix accepts the write of a diagonal term and stores it.
C26_CouplingRejectsDiagonal ==
    /\ [](mkind = "IsingCoupling" =>
            /\ NoDiagonalKey(mat)
            /\ mlast.op \in {"add", "radd", "sub", "rsub", "mul", "rmul", "truediv", "floordiv"}
               /\ mlast.raised = "none"
               => NoDiagonalKey(mlast.result)
            /\ mlast.op = "__init__" /\ HasDiagonal(mlast.arg)
               => mlast.raised = "KeyError")
    /\ [][/\ mkind = "IsingCoupling" /\ mlast'.op \in {"setitem", "accumulate"}
             /\ Diagonal(mlast'.arg)
             => mlast'.raised = "KeyError" /\ mat' = mat
          /\ mkind = "IsingCoupling"
             /\ mlast'.op \in {"update", "iadd", "isub", "add", "radd", "sub", "rsub"}
             /\ HasDiagonal(mlast'.arg)
             => mlast'.raised = "KeyError"
          /\ mkind = "QUBOMatrix" /\ mlast'.op = "setitem" /\ Diagonal(mlast'.arg)
             => mlast'.raised = "none" /\ getitem(mat', mlast'.arg) = mlast'.val]_vars

\* an update of an IsingCoupling that lists (1, 1) with coefficient 0 raised
C26_Witness ==
    /\ mkind = "IsingCoupling"
    /\ mlast.op = "update"
    /\ mlast.arg = <<E(KT(0, 1), 2), E(KT(1, 1), 0)>>
    /\ mlast.raised = "KeyError"

\* the key is a term a model of class kind accepts
WellFormedKey(kind, key) ==
    CASE kind = "QUBOMatrix" ->
            key.tuple /\ Len(key.items) = 2 /\ key.items[1] >= 0 /\ key.items[2] >= 0
      [] kind = "IsingCoupling" ->
            /\ key.tuple /\ Len(key.items) = 2 /\ key.items[1] >= 0 /\ key.items[2] >= 0
            /\ key.items[1] # key.items[2]
      [] kind = "IsingField" -> ~key.tuple /\ key.items[1] >= 0
WellFormed(kind, g) == \A j \in DOMAIN g : WellFormedKey(kind, g[j].k)

\* the operation named op of a model d of class kind, with right-hand side g
Operate(op, kind, d, g) ==
    CASE op = "iadd" -> iadd(kind, d, g)
      [] op = "isub" -> isub(kind, d, g)
      [] op = "add" -> add(kind, d, g)
      [] op = "sub" -> sub(kind, d, g)

\* the step made op with the plain dict g what the same operation makes with
\* the model other = cls(g) in place of g, and cls(g) can be built
SameAsWithModel(cls) ==
    LET g == mlast'.arg
        other == init(cls, g)
        ref == Operate(mlast'.op, mkind, mat, Items(other.d))
    IN  /\ other.raised = "none"
        /\ mlast'.raised = ref.raised
        /\ IF mlast'.op \in {"iadd", "isub"}
           THEN mat' = ref.d
           ELSE mat' = mat /\ mlast'.raised = "none" /\ mlast'.result = ref.d

\* every coefficient of the model d, of the plain dict g, is an integer
IntegerModel(d) == \A k \in DOMAIN d : IsInt(d[k])
IntegerDict(g) == \A j \in DOMAIN g : IsInt(g[j].v)

\* C27 as stated, for d a QUBOMatrix or an IsingCoupling, the classes whose
\* terms are the pairs QUBOMatrix(g) is built from: for every such d and every
\* plain dict g of terms well-formed for d, with coefficients of any kind,
\* d + g, d - g, d += g and d -= g give the same model as the same operation
\* with QUBOMatrix(g) in place of g.
C27_SameAsWithQUBOMatrix ==
    [][/\ mlast'.op \in {"iadd", "isub", "add", "sub"}
       /\ mkind \in {"QUBOMatrix", "IsingCoupling"}
       /\ WellFormed(mkind, mlast'.arg)
       => SameAsWithModel("QUBOMatrix")]_vars

\* C27, amended: for a QUBOMatrix or IsingCoupling d with integer coefficients
\* and every plain dict g of terms well-formed for d's class with integer
\* coefficients, whose keys may be listed in non-canonical order and may name
\* the same term more than once, d + g, d - g, d += g and d -= g give the same
\* model as the same operation with QUBOMatrix(g) in place of g; for an
\* IsingField d they give the same model as with IsingField(g).
C27_SameAsWithModelOfClass ==
    [][/\ mlast'.op \in {"iadd", "isub", "add", "sub"}
       /\ WellFormed(mkind, mlast'.arg)
       /\ IntegerModel(mat) /\ IntegerDict(mlast'.arg)
       => SameAsWithModel(IF mkind = "IsingField" THEN "IsingField" ELSE "QUBOMatrix")]_vars

\* d -= g was made on an IsingCoupling with a g that names the term (0, 1)
\* as (0, 1) and as (1, 0)
C27_Witness ==
    /\ mkind = "IsingCoupling"
    /\ mlast.op = "isub"
    /\ mlast.arg = <<E(KT(0, 1), 1), E(KT(1, 0), 2), E(KT(2, 0), 0)>>
    /\ mlast.raised = "none"
    /\ mat = (KT(0, 1) :> -1)

RECURSIVE SumFor(_, _)
\* the sum of the coefficients g gives under keys that name the term k
SumFor(g, k) ==
    IF g = <<>> THEN 0
    ELSE (IF SortedKey(Head(g).k) = k THEN Head(g).v ELSE 0) + SumFor(Tail(g), k)

\* C28: a model constructed from pairs in which several keys name the same
\* term stores that term once, under its sorted key, with the sum of their
\* coefficients, and stores nothing for a term whose coefficients sum to zero
\* or whose single coefficient is zero;
\* IsingCoupling({(0, 1): 1, (1, 0): 2, (2, 0): 0}) is {(0, 1): 3}.
C28_ConstructionSums ==
    /\ init("IsingCoupling", <<E(KT(0, 1), 1), E(KT(1, 0), 2), E(KT(2, 0), 0)>>)
           = R((KT(0, 1) :> 3), "none")
    /\ mlast.op = "__init__" /\ mlast.raised = "none" =>
          /\ DOMAIN mat = {SortedKey(mlast.arg[j].k) : j \in DOMAIN mlast.arg}
                             \ {k \in {SortedKey(mlast.arg[j].k) : j \in DOMAIN mlast.arg} :
                                   SumFor(mlast.arg, k) = 0}
          /\ \A k \in DOMAIN mat : mat[k] = SumFor(mlast.arg, k)

\* the object constructed from the docstring's pairs
C28_Witness ==
    /\ mkind = "IsingCoupling"
    /\ mlast.op = "__init__"
    /\ mlast.arg = <<E(KT(0, 1), 1), E(KT(1, 0), 2), E(KT(2, 0), 0)>>
    /\ mat = (KT(0, 1) :> 3)

\* the last item of g whose key names the term k
LastFor(g, k) ==
    g[CHOOSE j \in DOMAIN g :
         /\ SortedKey(g[j].k) = k
         /\ \A i \in DOMAIN g : SortedKey(g[i].k) = k => i <= j]
\* the terms g lists
Listed(g) == {SortedKey(g[j].k) : j \in DOMAIN g}

\* C29: update(m) overwrites rather than accumulates: after an update that
\* raised nothing, each term listed in m has exactly the coefficient m gives
\* it (the last one, when m lists the term under both label orders), stored
\* under its sorted key; a term given coefficient 0 is not stored; and every
\* term not listed in m has the coefficient it had.
C29_UpdateOverwrites ==
    [][mlast'.op = "update" /\ mlast'.raised = "none" =>
          LET m == mlast'.arg
          IN  /\ \A k \in Listed(m) :
                    /\ getitem(mat', k) = LastFor(m, k).v
                    /\ k \in DOMAIN mat' <=> LastFor(m, k).v # 0
              /\ DOMAIN mat' \subseteq DOMAIN mat \cup Listed(m)
              /\ \A k \in DOMAIN mat \ Listed(m) : k \in DOMAIN mat' /\ mat'[k] = mat[k]]_vars

\* update({(0, 0): 1, (1, 0): 2, (2, 0): 0}) was made on a QUBOMatrix, which
\* holds 2 under (0, 1) and nothing under (0, 2)
C29_Witness ==
    /\ mkind = "QUBOMatrix"
    /\ mlast.op = "update"
    /\ mlast.arg = <<E(KT(0, 0), 1), E(KT(1, 0), 2), E(KT(2, 0), 0)>>
    /\ mlast.raised = "none"
    /\ mat = (KT(0, 0) :> 1) @@ (KT(0, 1) :> 2)

\* C30: a model write that fails with an invalid-term error leaves the model
\* exactly as it was before the call: a single item write or accumulation, and
\* an in-place +=, -= or update whose right-hand side has an invalid term
\* after one or more valid terms.
C30_FailedWriteLeavesModel ==
    [][/\ mlast'.op \in {"setitem", "accumulate", "update", "iadd", "isub"}
       /\ mlast'.raised = "KeyError"
       => mat' = mat]_vars

\* what the caller can read through the object it holds
HeldView(h, hd) == {Deep(h, id) : id \in hd}

\* C22: the values returned by the state accessor, by initial_state and by
\* get_past_states are independent copies: they read as the engine's data
\* when returned, they share no dict and no list with the engine, a change
\* the caller makes to a returned dict or list changes neither the engine's
\* state nor its initial state nor any snapshot, and a later update,
\* set_state or reset changes nothing the caller holds.
C22_ReturnedCopiesIndependent ==
    /\ [](/\ Reach(heap, held) \cap Reach(heap, {own.state, own.initial, own.past}) = {}
          /\ rlast.op = "state" => HeldView(heap, held) = {Deep(heap, own.state)}
          /\ rlast.op = "initial_state" => HeldView(heap, held) = {Deep(heap, own.initial)}
          /\ rlast.op = "get_past_states"
             => \A id \in held :
                   Deep(heap, id) = get_past_states(Deep(heap, own.past), Deep(heap, own.state),
                                                    AliasMemory, rlast.arg # 0, rlast.arg))
    /\ [][/\ rlast'.op \in {"mutate_dict", "mutate_list"}
             => EngineView(heap', own') = EngineView(heap, own)
          /\ rlast'.op \in {"update", "set_state", "reset"}
             => HeldView(heap', held') = HeldView(heap, held)]_vars

\* an update flipped the spin while the caller held a list returned by
\* get_past_states, whose last element still reads the state before the flip
C22_Witness ==
    /\ rlast = ROp("update", 1)
    /\ \E id \in held :
          /\ heap[id].kind = "list"
          /\ Len(heap[id].val) = 2
          /\ Deep(heap, id)[2] # Deep(heap, own.state)
          /\ Deep(heap, id)[2] = Deep(heap, own.past)[Len(heap[own.past].val)]

\* C34: after construction the adjacency index maps every engine variable v
\* to exactly the model terms that contain v, each with the model's
\* coefficient: a term appears under each of its labels and a term with no
\* labels under none; and no update, schedule_update, reset or set_state
\* call, returning or raising, changes the index, the variable list, the
\* stored initial state or memory.
C34_IndexBuiltOnce ==
    /\ [](/\ DOMAIN subgraphs = Range(variables)
          /\ \A v \in Range(variables) : \A k \in DOMAIN subgraphs[v] :
                /\ k \in DOMAIN model
                /\ \E j \in DOMAIN k : k[j] = v
                /\ subgraphs[v][k] = model[k]
          /\ \A k \in DOMAIN model : \A j \in DOMAIN k :
                k[j] \in Range(variables) /\ k \in DOMAIN subgraphs[k[j]]
          /\ \A v \in Range(variables) : <<>> \notin DOMAIN subgraphs[v])
    /\ [][UNCHANGED <<subgraphs, variables, initial_state, memory>>]_vars

\* an update on the model with a constant, a linear and a pair term has run
\* and moved the state away from the stored initial state
C34_Witness ==
    /\ model = ModelMixed
    /\ pc = "idle"
    /\ last.op = "update"
    /\ last.raised = "none"
    /\ state # initial_state
    /\ DOMAIN subgraphs[1] = {<<1>>, <<1, 2>>}
    /\ DOMAIN subgraphs[2] = {<<1, 2>>}

\* C35: one sweep evaluates exactly as many candidates as the engine has
\* variables: the sweep draws that many labels, each candidate step takes one,
\* and the sweep ends with the last.  The labels are drawn independently with
\* replacement, so from a source nobody seeded every sequence of that length
\* over the variables is a possible sweep.
C35_SweepDrawsWithReplacement ==
    /\ [](pc = "update" /\ rng = Unknown /\ (logCap = 0 \/ Len(log) < logCap) =>
             \A d \in [1 .. Len(variables) -> Range(variables)] :
                 ENABLED (SweepBegin /\ draws' = d))
    /\ [](pc = "sweep" <=> draws # <<>>)
    /\ [][/\ pc = "update" => /\ Len(draws') = Len(variables)
                              /\ Range(draws') \subseteq Range(variables)
          /\ pc = "sweep" => draws' = Tail(draws)]_vars

\* in one sweep over two variables label 1 was drawn twice: its first
\* candidate flipped it, its second is about to flip it again, and label 2
\* is not evaluated at all
C35_Witness ==
    /\ pc = "sweep"
    /\ Range(variables) = {1, 2}
    /\ draws = <<1>>
    /\ memory >= 1
    /\ past_states[Len(past_states)] = flip_bit(state, 1)
    /\ Accept(dE(state, subgraphs, 1), cur_T, FALSE)

RECURSIVE Shrunk(_, _, _, _)
\* x * (p / q)^k, rounded down at every step
Shrunk(x, p, q, k) == IF k = 0 THEN x ELSE Shrunk((x * p) \div q, p, q, k - 1)
\* u < exp(-d / T) for the draw u of v millionths, d > 0 and T > 0: with
\* 4/11 < 1/e < 3/8 and floor(d / T) <= d / T <= ceil(d / T), the test
\* passing implies BelowExpAtMost and the test failing implies
\* BelowExpAtLeast (every rounding of Shrunk loses less than 1)
BelowExpAtMost(v, d, T) == v < Shrunk(Million, 3, 8, d \div T) + (d \div T)
BelowExpAtLeast(v, d, T) == v >= Shrunk(Million, 4, 11, (d + T - 1) \div T)

\* C36: a candidate with delta <= 0 is always flipped and takes no draw from
\* the random source; a candidate with delta > 0 is never flipped at
\* temperature 0 and takes no draw there; at temperature > 0 it takes exactly
\* one draw u and is flipped if and only if u < exp(-delta / temperature); a
\* rejected candidate leaves the state unchanged.
C36_AcceptanceRule ==
    [][pc = "sweep" /\ cur_T >= 0 =>
          LET i == Head(draws)
              d == dE(state, subgraphs, i)
          IN  /\ state' \in {state, flip_bit(state, i)}
              /\ d <= 0 => state' = flip_bit(state, i) /\ rng' = rng
              /\ d > 0 /\ cur_T = 0 => state' = state /\ rng' = rng
              /\ d > 0 /\ cur_T > 0 =>
                    /\ rng' = RngNext(rng)
                    /\ state' = flip_bit(state, i)
                          => BelowExpAtMost(random_random(rng), d, cur_T)
                    /\ state' = state => BelowExpAtLeast(random_random(rng), d, cur_T)]_vars

\* a sweep at temperature 1 whose next candidate is uphill and whose draw
\* will accept it, after a candidate of the same sweep was rejected
C36_Witness ==
    /\ pc = "sweep"
    /\ cur_T = 1
    /\ memory >= 1
    /\ Len(draws) = 1
    /\ past_states[Len(past_states)] = state
    /\ dE(state, subgraphs, Head(draws)) > 0
    /\ RandomBelowExp(random_random(rng), dE(state, subgraphs, Head(draws)), cur_T)

\* C37: argument validation precedes seeding: update(T, sweeps, seed) with
\* sweeps < 0 and a seed given fails without re-initialising the shared
\* random source, which is left at the position it had before the call.
C37_FailedUpdateKeepsSource ==
    [][pc = "idle" /\ last'.op = "update" /\ last'.raised = "ValueError" => rng' = rng]_vars

\* C40: for every integer n >= 0 and every reachable history,
\* get_past_states(n) returns at most max(n, 1) states, the last of which is
\* the current state; in particular get_past_states(0) returns only the
\* current state.
C40_PastStatesAtMostN ==
    pc = "idle" =>
        \A n \in 0 .. MaxNum :
            LET r == get_past_states(past_states, state, memory, TRUE, n)
            IN  /\ Len(r) <= (IF n >= 1 THEN n ELSE 1)
                /\ r[Len(r)] = state
                /\ n = 0 => r = <<state>>

RECURSIVE Advance(_, _)
\* the position of the source k draws after position r
Advance(r, k) == IF k = 0 THEN r ELSE Advance(RngNext(r), k - 1)

\* C38: the random source is shared by the simulations of the process.  A seed
\* given to a call on the other simulation leaves the source this simulation
\* draws from at the seed's position, and each sweep of the other simulation
\* moves it by the draws that sweep takes (one per variable for the labels, at
\* most one more per variable for the acceptance tests).  This simulation's
\* trajectory after its own seeded call is the one it has in a process of its
\* own as long as no call on the other simulation has run since.
C38_SharedSource ==
    /\ [](pc = "idle" /\ twin.first = "seeded" /\ ~peer.after =>
             twin.e.state = state /\ twin.e.past = past_states /\ twin.e.rng = rng)
    /\ [][last'.op \in {"peer.update", "peer.update(seed)"} =>
             \E start \in (IF last'.op = "peer.update" THEN {rng}
                           ELSE {SeedState(seed) : seed \in Seeds}) :
                 \E k \in last'.arg * Len(variables)
                             .. 2 * last'.arg * Len(variables) :
                     rng' = Advance(start, k)]_vars

\* an update on this simulation has returned in another state than it has in
\* a process of its own, a call on the other simulation having run after
\* this simulation's seeded call
C38_Witness ==
    /\ pc = "idle"
    /\ twin.first = "seeded"
    /\ peer.after
    /\ last.op = "update" /\ last.arg >= 1 /\ last.raised = "none"
    /\ state # twin.e.state

\* ---------------------------------------------------------------------
\* C39

\* the operators that return a model
NonInPlace == {"add", "radd", "sub", "rsub", "mul", "rmul", "truediv", "floordiv"}
\* the term-wise negation of d
Negate(d) == [k \in DOMAIN d |-> -d[k]]
\* d is a model a class kind can hold: its keys are terms of the class, in
\* their stored form, and none of its coefficients is zero
ModelOf(kind, d) ==
    \A k \in DOMAIN d : WellFormedKey(kind, k) /\ SortedKey(k) = k /\ d[k] # 0

\* C39: the non-in-place operators d + g, g + d, d - g, g - d, c * d, d * c,
\* d / c and d // c return a new model of the class of d and leave d and g as
\* they were; for integer coefficients d + g equals g + d, (d + g) - g equals
\* d, and g - d, computed through the reflected subtraction, is the term-wise
\* negation of d - g.
C39_OperatorsReturnNewModel ==
    [][mlast'.op \in NonInPlace =>
          /\ mat' = mat /\ mkind' = mkind
          /\ mlast'.raised = "none" =>
                /\ ModelOf(mkind, mlast'.result)
                /\ mlast'.op \in {"add", "radd"} =>
                      /\ mlast'.result = radd(mkind, mat, mlast'.arg).d
                      /\ mlast'.result = add(mkind, mat, mlast'.arg).d
                      /\ mlast'.result = add(mkind, init(mkind, mlast'.arg).d, Items(mat)).d
                      /\ sub(mkind, mlast'.result, mlast'.arg) = R(mat, "none")
                /\ mlast'.op = "rsub" =>
                      /\ sub(mkind, mat, mlast'.arg).raised = "none"
                      /\ mlast'.result = Negate(sub(mkind, mat, mlast'.arg).d)
                /\ mlast'.op = "sub" =>
                      /\ rsub(mkind, mat, mlast'.arg).raised = "none"
                      /\ mlast'.result = Negate(rsub(mkind, mat, mlast'.arg).d)
                /\ mlast'.op \in {"mul", "rmul"} =>
                      mlast'.result = rmul(mkind, mat, mlast'.val).d
                                      /\ mlast'.result = mul(mkind, mat, mlast'.val).d]_vars

\* g - d was computed for a d of two terms and a g that names both: the term
\* (0, 0) cancels and is not stored, and d is as it was
C39_Witness ==
    /\ mkind = "QUBOMatrix"
    /\ mlast.op = "rsub"
    /\ mlast.raised = "none"
    /\ mlast.arg = <<E(KT(0, 0), 1), E(KT(1, 0), 2), E(KT(2, 0), 0)>>
    /\ mat = (KT(0, 0) :> 1 @@ KT(0, 1) :> -1)
    /\ mlast.result = (KT(0, 1) :> 3)

\* ---------------------------------------------------------------------
\* C31, C32, C33

RECURSIVE SumOver(_, _)
\* the sum of f[k] for k in S
SumOver(f, S) ==
    IF S = {} THEN 0
    ELSE LET k == CHOOSE y \in S : TRUE IN f[k] + SumOver(f, S \ {k})

\* the assignments of values to the indices of the vertices of g
Assignments(g, vals) == [0 .. g.N - 1 -> vals]
\* an assignment as the list a solver returns
AsList(g, x) == Sol("list", [j \in 1 .. g.N |-> x[j - 1]])
\* the sum over the stored keys of Q[(i, j)] * x[i] * x[j]
QuadraticValue(Q, x) ==
    SumOver([k \in DOMAIN Q |-> Q[k] * x[k.items[1]] * x[k.items[2]]], DOMAIN Q)
\* the sum over the stored keys of h[i] * z[i]
LinearValue(h, z) == SumOver([k \in DOMAIN h |-> h[k] * z[k.items[1]]], DOMAIN h)
\* the number of indices with value 1
Ones(g, x) == Cardinality({i \in 0 .. g.N - 1 : x[i] = 1})
\* the edges neither of whose ends has value 1
Uncovered(g, x) ==
    {e \in g.edges : x[g.vertex_to_index[e[1]]] # 1 /\ x[g.vertex_to_index[e[2]]] # 1}
\* the edges whose ends have different values
Cut(g, z) == {e \in g.edges : z[g.vertex_to_index[e[1]]] # z[g.vertex_to_index[e[2]]]}

\* C31: for every edge set and every 0/1 assignment x of the vertex indices,
\* with (Q, offset) = VertexCover.to_qubo(A, B), the sum over the stored keys
\* of Q[(i, j)] * x[i] * x[j] plus offset equals B times the number of
\* vertices with x = 1 plus A times the number of edges neither of whose ends
\* has x = 1; so with B = 1 the value of an assignment that is_solution_valid
\* accepts is the number of vertices convert_solution colours.
C31_QuboCountsCover ==
    glast.op = "to_qubo" =>
        /\ glast.raised = "none"
        /\ \A x \in Assignments(graph, {0, 1}) :
              LET value == QuadraticValue(glast.result.Q, x) + glast.result.offset
              IN  /\ value = glast.arg[2] * Ones(graph, x)
                                 + glast.arg[1] * Cardinality(Uncovered(graph, x))
                  /\ glast.arg[2] = 1
                     /\ VertexCover_is_solution_valid(graph, AsList(graph, x)).result
                     => value = Cardinality(
                                    VertexCover_convert_solution(graph, AsList(graph, x)).result)

\* to_qubo(2, 1) of the graph {(0, 1), (0, 2)} of the docstring, vertex v at
\* index v: the coefficient of vertex 0 is 1 - 2 - 2 and the offset is 4
C31_Witness ==
    /\ glast.op = "to_qubo"
    /\ glast.arg = <<2, 1>>
    /\ graph.edges = {<<0, 1>>, <<0, 2>>}
    /\ glast.result.offset = 4
    /\ glast.result.Q = (KT(0, 0) :> -3 @@ KT(1, 1) :> -1 @@ KT(2, 2) :> -1
                             @@ KT(0, 1) :> 2 @@ KT(0, 2) :> 2)

\* the A that to_ising(A, B) uses
UsedA(g, args) == IF args[1] = NoA THEN DefaultA(g, args[2]) ELSE args[1]
\* the sum of the values of an assignment
SumOfValues(g, z) == SumOver(z, 0 .. g.N - 1)

\* C32: for every edge set without self-loops on an even number of vertices
\* and every +1/-1 assignment z, with (h, J, offset) =
\* GraphPartitioning.to_ising(A, B), the sum of J[(i, j)] * z[i] * z[j] plus
\* the sum of h[i] * z[i] plus offset equals A times the square of the sum of
\* z plus B times the number of edges whose ends have different values; so
\* for an assignment is_solution_valid accepts it is B times the number of
\* edges between the two partitions.
C32_IsingCountsCut ==
    glast.op = "to_ising" /\ (\A e \in graph.edges : e[1] # e[2]) =>
        /\ glast.raised = "none"
        /\ \A z \in Assignments(graph, {-1, 1}) :
              LET value == QuadraticValue(glast.result.J, z) + LinearValue(glast.result.h, z)
                              + glast.result.offset
              IN  /\ value = UsedA(graph, glast.arg) * SumOfValues(graph, z) * SumOfValues(graph, z)
                                 + glast.arg[2] * Cardinality(Cut(graph, z))
                  /\ GraphPartitioning_is_solution_valid(graph, AsList(graph, z)).result
                     => value = glast.arg[2] * Cardinality(Cut(graph, z))

\* to_ising(1, 2) of the graph {(0, 1), (1, 2), (0, 3)} of the docstring,
\* vertex v at index v: 2 on the pairs that are no edge, 1 on the edges
C32_Witness ==
    /\ glast.op = "to_ising"
    /\ glast.arg = <<1, 2>>
    /\ graph.edges = {<<0, 1>>, <<1, 2>>, <<0, 3>>}
    /\ glast.result.offset = 7
    /\ glast.result.h = <<>>
    /\ glast.result.J = (KT(0, 1) :> 1 @@ KT(0, 2) :> 2 @@ KT(0, 3) :> 1
                             @@ KT(1, 2) :> 1 @@ KT(1, 3) :> 2 @@ KT(2, 3) :> 2)

\* C33: constructing a GraphPartitioning from an edge set whose vertex set
\* has an odd number of vertices raises an error, and from one with an even
\* number, the empty edge set among them, succeeds; convert_solution then
\* splits the vertices of the solution's indices into two disjoint sets whose
\* union is all of them, and is_solution_valid is true exactly when the two
\* sets have the same size.
C33_EvenVerticesAndPartition ==
    /\ glast.op = "__init__" /\ glast.arg.cls = "GraphPartitioning" =>
          /\ glast.raised = "ValueError" <=> Cardinality(Vertices(glast.arg.edges)) % 2 = 1
          /\ glast.raised = "none" <=> graph.cls = "GraphPartitioning"
          /\ glast.raised \in {"none", "ValueError"}
    /\ graph.cls = "GraphPartitioning" =>
          /\ graph.N % 2 = 0
          /\ glast.op = "convert_solution" /\ glast.raised = "none" =>
                LET d == AsDict(glast.arg)
                IN  /\ glast.result[1] \cap glast.result[2] = {}
                    /\ glast.result[1] \cup glast.result[2]
                           = {index_to_vertex(graph, i) : i \in DOMAIN d}
                    /\ Cardinality(glast.result[1]) + Cardinality(glast.result[2])
                           = Cardinality(DOMAIN d)
          /\ glast.op = "is_solution_valid" /\ glast.raised = "none" =>
                IF glast.arg.form = "pair"
                THEN glast.result
                         <=> Cardinality(glast.arg.v[1]) = Cardinality(glast.arg.v[2])
                ELSE LET d == AsDict(glast.arg)
                     IN  glast.result <=> Cardinality({i \in DOMAIN d : d[i] = 1})
                                               = Cardinality({i \in DOMAIN d : d[i] # 1})

\* is_solution_valid accepted the list [1, 0, 1, 0] for the graph of four
\* vertices
C33_Witness ==
    /\ graph.cls = "GraphPartitioning"
    /\ graph.N = 4
    /\ glast.op = "is_solution_valid"
    /\ glast.arg = Sol("list", <<1, 0, 1, 0>>)
    /\ glast.raised = "none"
    /\ glast.result

====
